---- MODULE Spec2Model ----
(***************************************************************************)
(* A model of ditto-repo's mirroring engine (package repo): the            *)
(* orchestrator Mirror/doMirror/mirrorDistribution, the two-stage worker   *)
(* pipeline of processPackageIndex, HTTPDownloader.DownloadFile over a     *)
(* POSIX file system, and cleanupOrphanedPackages.                         *)
(*                                                                         *)
(* Files are modelled as inodes (a set of names, the bytes, the goroutines *)
(* holding an open write descriptor), because os.Create truncates the      *)
(* inode a name already points to and os.Rename moves the inode, so two    *)
(* writers of one temporary name share bytes.  Bytes are small integers,   *)
(* 0 is the byte of a hole left by a write beyond the end of a file.       *)
(***************************************************************************)
EXTENDS Integers, Sequences, FiniteSets, TLC

(* ------------------------------ bounds -------------------------------- *)

\* lines of a Release file given to parseReleaseFile on its own
MaxLines == 4
\* lines of a package list given to the stanza scanner on its own
MaxStanzaLines == 5
\* DittoConfig.Workers: the size of both worker pools (the default is 5)
Workers == 2
\* number of chunks io.Copy moves for one response body
BodyLen == 1
\* injected environment failures (transport, disk) per behaviour
MaxFaults == 1
\* Mirror calls made on the one repository object
MaxRuns == 2
\* capacity of the progress channel in the model (the code makes it 100)
ProgressCap == 1

(* --------------------------- configuration ---------------------------- *)

\* DittoConfig.DownloadPath, after path.Join has cleaned "./mirror"
DownloadPath == "mirror"
\* DittoConfig.RepoURL
RepoURL == "http://u"
\* DittoConfig.Dists
Dists == <<"d1", "d2">>
\* mirrorDistribution: metadataFiles
MetadataFiles == <<"InRelease", "Release", "Release.gpg">>
\* DittoConfig.Components, .Archs and .Languages
Components == <<"main">>
Archs == <<"amd64">>
Languages == <<"en">>

(* ------------------------------ strings ------------------------------- *)

\* strings.HasPrefix
HasPrefix(s, pre) == Len(s) >= Len(pre) /\ SubSeq(s, 1, Len(pre)) = pre

\* strings.HasSuffix
HasSuffix(s, suf) ==
    Len(s) >= Len(suf) /\ SubSeq(s, Len(s) - Len(suf) + 1, Len(s)) = suf

\* strings.Contains
Contains(s, sub) ==
    \E i \in 1..(Len(s) - Len(sub) + 1) : SubSeq(s, i, i + Len(sub) - 1) = sub

\* path.Join of two clean, non-empty elements
Join(a, b) == a \o "/" \o b

\* position of the last "/" of p, 0 when there is none
LastSlash[p \in STRING] ==
    LET S == {i \in 1..Len(p) : SubSeq(p, i, i) = "/"}
    IN  IF S = {} THEN 0 ELSE CHOOSE i \in S : \A j \in S : j <= i

\* path.Dir
Dir(p) == IF LastSlash[p] = 0 THEN "." ELSE SubSeq(p, 1, LastSlash[p] - 1)

\* path.Base
Base(p) == SubSeq(p, LastSlash[p] + 1, Len(p))

\* filepath.Rel(root, p) followed by filepath.ToSlash, for p below root
Rel(root, p) == SubSeq(p, Len(root) + 2, Len(p))

\* p and every ancestor directory of p, as os.MkdirAll creates them
Ancestors[p \in STRING] ==
    {p} \cup {SubSeq(p, 1, i - 1) : i \in {j \in 1..Len(p) : SubSeq(p, j, j) = "/"}}

\* DownloadFile: tmpPath := destPath + ".tmp"
TmpPath(destPath) == destPath \o ".tmp"

(* ------------------------------ content ------------------------------- *)
\* a body of BodyLen chunks, all carrying byte b
Body(b) == [i \in 1..BodyLen |-> b]

(* ------------------------------ upstream ------------------------------ *)

IndexPath == "main/binary-amd64/Packages.gz"
\* further entries a Release file may list: the package list in xz and
\* uncompressed, and a translation list
XzIndexPath == "main/binary-amd64/Packages.xz"
PlainIndexPath == "main/binary-amd64/Packages"
TranslationPath == "main/i18n/Translation-en.gz"

PkgA == "pool/a.deb"
PkgB == "pool/b.deb"
PkgC == "pool/c.udeb"
Orphan == "pool/old.deb"
Readme == "pool/README"

\* the objects the upstream server has, in a fixed order; the byte of an
\* object's body is its position
Objects ==
    << Join(RepoURL, "dists/d1/InRelease"), Join(RepoURL, "dists/d1/Release"),
       Join(RepoURL, "dists/d1/Release.gpg"),
       Join(RepoURL, Join("dists/d1", IndexPath)),
       Join(RepoURL, "dists/d2/InRelease"), Join(RepoURL, "dists/d2/Release"),
       Join(RepoURL, "dists/d2/Release.gpg"),
       Join(RepoURL, Join("dists/d2", IndexPath)),
       Join(RepoURL, PkgA), Join(RepoURL, PkgB), Join(RepoURL, PkgC),
       Join(RepoURL, Join("dists/d1", XzIndexPath)),
       Join(RepoURL, Join("dists/d1", TranslationPath)) >>

ByteOf(url) == CHOOSE k \in 1..Len(Objects) : Objects[k] = url

\* bytes no upstream object carries: of files that only exist locally (an
\* orphan, a readme), of a local package file that is out of date, and of
\* a body damaged in transit
LocalByte == Len(Objects) + 1
StaleByte == LocalByte + 1
CorruptByte == StaleByte + 1

\* radix of the model's digest, above every byte value
HashBase == CorruptByte + 1

\* sha256 + hex.EncodeToString: an injective digest of a byte sequence
\* (never 0, which stands for the empty expectedSHA256 "")
RECURSIVE SHA256(_)
SHA256(data) ==
    IF data = <<>> THEN 1
    ELSE SHA256(SubSeq(data, 1, Len(data) - 1)) * HashBase + data[Len(data)]

\* the empty expectedSHA256 of the metadata and index downloads
NoChecksum == 0

\* what the server answers for url when the transfer is not disturbed
UpstreamBody(url) == Body(ByteOf(url))

\* packageMeta of the package stored upstream at relative path p
Meta(p) == [Path |-> p, SHA256 |-> SHA256(UpstreamBody(Join(RepoURL, p)))]

\* the stanzas the d1 package index may carry upstream: two packages, or
\* one package listed twice
D1Variants == {<<Meta(PkgA), Meta(PkgB)>>, <<Meta(PkgA), Meta(PkgA)>>}
D2Stanzas == <<Meta(PkgC)>>

(* ---------------------------- file system ----------------------------- *)

\* goroutines that write files: 0 is doMirror, 1..Workers the download workers
Main == 0
Threads == 0..Workers

NewFile(p, data, readable) ==
    [paths |-> {p}, data |-> data, writers |-> {}, readable |-> readable]

HasFile(f, p) == \E i \in f : p \in i.paths
FileAt(f, p) == CHOOSE i \in f : p \in i.paths
Handle(f, t) == CHOOSE i \in f : t \in i.writers

\* an inode with no name and no open descriptor is gone
Gc(f) == {i \in f : i.paths # {} \/ i.writers # {}}

\* os.Create: O_CREATE|O_TRUNC, the descriptor goes to goroutine t
FsCreate(f, p, t) ==
    IF HasFile(f, p)
    THEN LET i == FileAt(f, p)
         IN  (f \ {i}) \cup {[i EXCEPT !.data = <<>>, !.writers = @ \cup {t}]}
    ELSE f \cup {[NewFile(p, <<>>, TRUE) EXCEPT !.writers = {t}]}

\* the bytes of a file after one chunk b is written at offset off
WriteAt(data, off, b) ==
    IF off < Len(data) THEN [data EXCEPT ![off + 1] = b]
    ELSE data \o [k \in 1..(off - Len(data)) |-> 0] \o <<b>>

\* (*os.File).Write through the descriptor of goroutine t
FsWrite(f, t, off, b) ==
    LET i == Handle(f, t)
    IN  (f \ {i}) \cup {[i EXCEPT !.data = WriteAt(@, off, b)]}

\* (*os.File).Close of the descriptor of goroutine t (no-op when closed)
FsClose(f, t) ==
    Gc({[i EXCEPT !.writers = @ \ {t}] : i \in f})

\* os.Remove of a file; the caller checks HasFile for the ENOENT error
FsRemove(f, p) ==
    Gc({[i EXCEPT !.paths = @ \ {p}] : i \in f})

\* os.Rename of a file; the caller checks HasFile(f, old) for ENOENT
FsRename(f, old, new) ==
    LET i == FileAt(f, old)
    IN  IF new \in i.paths THEN f
        ELSE Gc({[j EXCEPT !.paths = IF j = i THEN (@ \ {old}) \cup {new}
                                               ELSE @ \ {new}] : j \in f})

\* os.Link; the caller checks HasFile(f, old) and ~HasFile(f, new)
FsLink(f, old, new) ==
    {[j EXCEPT !.paths = IF old \in @ THEN @ \cup {new} ELSE @] : j \in f}

\* os.ReadFile / io.Copy from os.Open: the bytes at p
FsRead(f, p) == FileAt(f, p).data

(* ------------------------------- state -------------------------------- *)

VARIABLES
    published,          \* upstream: the stanzas of each distribution's package index
    manifest,           \* upstream: the paths in the SHA256 block of each Release file
    callerRuns,         \* the number of Mirror calls the caller makes in all
    fs,                 \* local disk: the set of inodes
    dirs,               \* local disk: the directories
    faults,             \* environment failures injected so far
    run,                \* Mirror calls made so far
    cancelled,          \* ctx.Err() != nil for the context of the current run
    mpc,                \* where the doMirror goroutine stands
    distIdx,            \* doMirror: position in config.Dists
    metaIdx,            \* mirrorDistribution: position in metadataFiles
    indices,            \* mirrorDistribution: result of parseReleaseFile
    idxIdx,             \* mirrorDistribution: position in indices
    call,               \* the DownloadFile activation of each writing goroutine
    validPackages,      \* dittoRepo.validPackages (the keys set to true)
    packagesDownloaded, \* dittoRepo.packagesDownloaded
    totalPackages,      \* dittoRepo.totalPackages
    progressChan,       \* dittoRepo.progressChan: state and buffered updates
    debs,               \* processPackageIndex: the decoded records
    sendIdx,            \* processPackageIndex: position of the two send loops
    verificationJobs,   \* channel: buffered jobs and whether it is closed
    vw,                 \* the verification workers
    downloadJobsChan,   \* channel: the download candidates pushed so far
    jobs,               \* processPackageIndex: the collected download jobs
    jobChan,            \* channel: buffered jobs and whether it is closed
    dw,                 \* the download workers
    hist,               \* history of the run, read by the properties only
    probe               \* a function of the package applied on its own: arguments, results

\* the state of a repository object and of its environment
programVars ==
    << published, manifest, callerRuns, fs, dirs, faults, run, cancelled, mpc, distIdx,
       metaIdx, indices, idxIdx, call, validPackages, packagesDownloaded,
       totalPackages, progressChan, debs, sendIdx, verificationJobs, vw,
       downloadJobsChan, jobs, jobChan, dw, hist >>

vars == << probe, published, manifest, callerRuns, fs, dirs, faults, run, cancelled, mpc, distIdx, metaIdx,
           indices, idxIdx, call, validPackages, packagesDownloaded,
           totalPackages, progressChan, debs, sendIdx, verificationJobs, vw,
           downloadJobsChan, jobs, jobChan, dw, hist >>

\* a pool with one worker more than configured
PoolOneMore == 1..(Workers + 1)

\* the workers a stage starts: one for each i with 0 <= i < d.config.Workers
Pool == 1..Workers

\* a channel as made by make(chan T, n), and a pool whose workers have returned
OpenChan == [closed |-> FALSE, buf |-> <<>>]
NoWorkers == [w \in Pool |-> [pc |-> "done"]]

Dist == Dists[distIdx]
DistDir(d) == Join(Join(DownloadPath, "dists"), d)
DistURL(d) == Join(Join(RepoURL, "dists"), d)

\* what is at path p: <<"absent">> or <<"file", bytes>>
Snap(f, p) == IF HasFile(f, p) THEN <<"file", FsRead(f, p)>> ELSE <<"absent">>

NoCall == [pc |-> "none"]

\* a DownloadFile activation that has returned
Returned(c, ok, err, hash) ==
    [pc |-> "ret", url |-> c.url, dest |-> c.dest, expected |-> c.expected,
     before |-> c.before, slot |-> c.slot, ok |-> ok, err |-> err, hash |-> hash]

CanFail == faults < MaxFaults
Fail == faults' = faults + 1
NoFail == faults' = faults

(* ---------------------------- DownloadFile ---------------------------- *)

\* DownloadFile, steps 1 to 3: MkdirAll, Create of the temporary file,
\* http.Get and the status check.  slot names the record the call is for
\* (<<>> for metadata and indices).
DownloadFileBegin(t, url, dest, expected, slot) ==
    LET c == [pc |-> "copy", url |-> url, dest |-> dest, expected |-> expected,
              before |-> Snap(fs, dest), slot |-> slot, body |-> <<>>, off |-> 0]
        made == dirs \cup Ancestors[Dir(dest)]
        created == FsCreate(fs, TmpPath(dest), t)
    IN  \/ /\ CanFail /\ Fail                       \* mkdir failed
           /\ call' = [call EXCEPT ![t] = Returned(c, FALSE, "mkdir", 0)]
           /\ UNCHANGED <<fs, dirs>>
        \/ /\ CanFail /\ Fail                       \* failed to create temp file
           /\ dirs' = made
           /\ call' = [call EXCEPT ![t] = Returned(c, FALSE, "create", 0)]
           /\ UNCHANGED fs
        \/ /\ CanFail /\ Fail                       \* http error, or status != 200
           /\ dirs' = made
           /\ fs' = FsClose(created, t)
           /\ call' = [call EXCEPT ![t] = Returned(c, FALSE, "http", 0)]
        \/ /\ dirs' = made
           /\ fs' = created
           /\ \/ /\ NoFail
                 /\ call' = [call EXCEPT ![t] = [c EXCEPT !.body = UpstreamBody(url)]]
              \/ /\ CanFail /\ Fail                 \* body damaged in transit
                 /\ call' = [call EXCEPT ![t] = [c EXCEPT !.body = Body(CorruptByte)]]

\* DownloadFile, step 5: io.Copy moves one chunk into the temporary file
\* and the hasher, or fails
DownloadFileCopy(t) ==
    LET c == call[t]
    IN  /\ c.pc = "copy"
        /\ c.off < BodyLen
        /\ \/ /\ NoFail
              /\ fs' = FsWrite(fs, t, c.off, c.body[c.off + 1])
              /\ call' = [call EXCEPT ![t].off = c.off + 1]
           \/ /\ CanFail /\ Fail                    \* copy failed
              /\ fs' = FsClose(fs, t)
              /\ call' = [call EXCEPT ![t] = Returned(c, FALSE, "copy", 0)]
        /\ UNCHANGED <<dirs, hist>>

\* DownloadFile, steps 6 and 7: the checksum test, then Close and Rename
DownloadFileCommit(t) ==
    LET c == call[t]
        tmp == TmpPath(c.dest)
        calculatedHash == SHA256(c.body)
    IN  /\ c.pc = "copy"
        /\ c.off = BodyLen
        /\ IF c.expected # NoChecksum /\ calculatedHash # c.expected
           THEN /\ NoFail
                /\ fs' = FsClose(IF HasFile(fs, tmp) THEN FsRemove(fs, tmp) ELSE fs, t)
                /\ call' = [call EXCEPT ![t] =
                       Returned(c, FALSE,
                                IF HasFile(fs, tmp) THEN "checksum" ELSE "checksum+remove",
                                0)]
                /\ UNCHANGED hist
           ELSE \/ /\ CanFail /\ Fail               \* close before rename failed
                   /\ fs' = FsClose(fs, t)
                   /\ call' = [call EXCEPT ![t] = Returned(c, FALSE, "close", 0)]
                   /\ UNCHANGED hist
                \/ /\ \/ CanFail /\ Fail            \* rename failed
                      \/ ~HasFile(fs, tmp) /\ NoFail
                   /\ fs' = FsClose(fs, t)
                   /\ call' = [call EXCEPT ![t] = Returned(c, FALSE, "rename", 0)]
                   /\ UNCHANGED hist
                \/ /\ HasFile(fs, tmp) /\ NoFail
                   /\ fs' = FsRename(FsClose(fs, t), tmp, c.dest)
                   /\ call' = [call EXCEPT ![t] = Returned(c, TRUE, "", calculatedHash)]
                   /\ hist' = [hist EXCEPT !.committed = @ \cup {<<c.dest, c.body>>}]
        /\ UNCHANGED dirs

(* ------------------------ parsing, by content ------------------------- *)

\* position of distribution d in Dists
DistNo(d) == CHOOSE k \in 1..Len(Dists) : Dists[k] = d

\* isDesired: the path is an index of a configured architecture, a
\* translation of a configured language or a command index of a configured
\* architecture
typeMatches(cfg, filePath) ==
    \/ \E a \in 1..Len(cfg.Archs) :
          /\ Contains(filePath, "binary-" \o cfg.Archs[a] \o "/")
          /\ Contains(filePath, "Packages")
    \/ /\ Contains(filePath, "i18n/Translation-")
       /\ \E l \in 1..Len(cfg.Languages) :
             Contains(filePath, "Translation-" \o cfg.Languages[l])
    \/ /\ Contains(filePath, "cnf/Commands-")
       /\ \E a \in 1..Len(cfg.Archs) : Contains(filePath, "Commands-" \o cfg.Archs[a])

\* a filter in which an empty component list admits every component
isDesiredEmptyAdmits(cfg, filePath) ==
    /\ \/ cfg.Components = <<>>
       \/ \E c \in 1..Len(cfg.Components) : HasPrefix(filePath, cfg.Components[c] \o "/")
    /\ typeMatches(cfg, filePath)

\* a filter that looks for the component anywhere in the path
isDesiredAnywhere(cfg, filePath) ==
    /\ \E c \in 1..Len(cfg.Components) : Contains(filePath, cfg.Components[c] \o "/")
    /\ typeMatches(cfg, filePath)

\* dittoRepo.isDesired under the filter lists of cfg
isDesiredIn(cfg, filePath) ==
    /\ \E c \in 1..Len(cfg.Components) : HasPrefix(filePath, cfg.Components[c] \o "/")
    /\ typeMatches(cfg, filePath)

\* the filter lists of the configuration the runs are made with
Config == [Components |-> Components, Archs |-> Archs, Languages |-> Languages]

isDesired(filePath) == isDesiredIn(Config, filePath)

\* parseReleaseFile: the extension test
validExt(filePath) ==
    \/ HasSuffix(filePath, ".gz")
    \/ HasSuffix(filePath, ".xz")
    \/ HasSuffix(filePath, ".bz2")

\* parseReleaseFile: the filter applied to one path of the SHA256 block
relevant(filePath) == validExt(filePath) /\ isDesired(filePath)

\* strings.Fields: the maximal runs of non-space characters of line from
\* position i on, after the run cur
RECURSIVE FieldsFrom(_, _, _)
FieldsFrom(line, i, cur) ==
    LET word == IF cur = "" THEN <<>> ELSE <<cur>>
    IN  IF i > Len(line) THEN word
        ELSE IF SubSeq(line, i, i) \in {" ", "\t"}
        THEN word \o FieldsFrom(line, i + 1, "")
        ELSE FieldsFrom(line, i + 1, cur \o SubSeq(line, i, i))

Fields(line) == FieldsFrom(line, 1, "")

\* parseReleaseFile: the line is taken for the head of the SHA256 block
opensBlock(line) == HasPrefix(line, "SHA256:")

\* parseReleaseFile: the line is another key (no indentation)
leavesBlock(line) == Len(line) > 0 /\ SubSeq(line, 1, 1) # " "

\* parseReleaseFile: the scanner loop from line i on, inside the block or not
RECURSIVE ScanRelease(_, _, _, _)
ScanRelease(cfg, lines, i, inSha256Block) ==
    IF i > Len(lines) THEN <<>>
    ELSE IF opensBlock(lines[i]) THEN ScanRelease(cfg, lines, i + 1, TRUE)
    ELSE LET inBlock == inSha256Block /\ ~leavesBlock(lines[i])
             parts == Fields(lines[i])
         IN  IF inBlock /\ Len(parts) >= 3 /\ validExt(parts[3])
                /\ isDesiredIn(cfg, parts[3])
             THEN <<parts[3]>> \o ScanRelease(cfg, lines, i + 1, inBlock)
             ELSE ScanRelease(cfg, lines, i + 1, inBlock)

\* parseReleaseFile: the numbers of the lines from line i on that the loop
\* splits into fields
RECURSIVE ScanBlock(_, _, _)
ScanBlock(lines, i, inSha256Block) ==
    IF i > Len(lines) THEN {}
    ELSE IF opensBlock(lines[i]) THEN ScanBlock(lines, i + 1, TRUE)
    ELSE LET inBlock == inSha256Block /\ ~leavesBlock(lines[i])
         IN  (IF inBlock THEN {i} ELSE {}) \cup ScanBlock(lines, i + 1, inBlock)

\* strings.TrimSpace(line) == ""
TrimSpaceIsEmpty(line) == \A i \in 1..Len(line) : SubSeq(line, i, i) \in {" ", "\t"}

\* strings.TrimPrefix of a line that has the prefix
TrimPrefix(line, prefix) == SubSeq(line, Len(prefix) + 1, Len(line))

\* packageMeta{}
EmptyPkg == [Path |-> "", SHA256 |-> ""]

\* extractDebsFromIndex: the record of a block is appended if it is complete
appendIfComplete(currentPkg, inBlock) ==
    IF inBlock /\ currentPkg.Path # "" /\ currentPkg.SHA256 # ""
    THEN <<currentPkg>> ELSE <<>>

\* a scanner that forgets the block the file ends in
lastBlockDropped(currentPkg, inBlock) == <<>>

\* extractDebsFromIndex: the very last block, after the loop
lastBlock(currentPkg, inBlock) == appendIfComplete(currentPkg, inBlock)

\* extractDebsFromIndex: the scanner loop over the decompressed lines from
\* line i on
RECURSIVE ScanStanzas(_, _, _, _)
ScanStanzas(lines, i, currentPkg, inBlock) ==
    IF i > Len(lines) THEN lastBlock(currentPkg, inBlock)
    ELSE IF TrimSpaceIsEmpty(lines[i])
    THEN appendIfComplete(currentPkg, inBlock) \o ScanStanzas(lines, i + 1, EmptyPkg, FALSE)
    ELSE IF HasPrefix(lines[i], "Filename: ")
    THEN ScanStanzas(lines, i + 1,
                     [currentPkg EXCEPT !.Path = TrimPrefix(lines[i], "Filename: ")], TRUE)
    ELSE IF HasPrefix(lines[i], "SHA256: ")
    THEN ScanStanzas(lines, i + 1,
                     [currentPkg EXCEPT !.SHA256 = TrimPrefix(lines[i], "SHA256: ")], TRUE)
    ELSE ScanStanzas(lines, i + 1, currentPkg, TRUE)

\* extractDebsFromIndex on the decompressed lines of a package list
extractDebsFromLines(lines) == ScanStanzas(lines, 1, EmptyPkg, FALSE)

\* parseReleaseFile on the lines of a manifest
parseReleaseLines(cfg, lines) == ScanRelease(cfg, lines, 1, FALSE)

\* parseReleaseFile applied to the bytes of the local Release file of d:
\* the relevant paths of the manifest as published, in its order, without
\* their checksums; damaged bytes carry no SHA256 block
parseReleaseFile(d, content) ==
    IF content = UpstreamBody(Join(DistURL(d), "Release"))
    THEN SelectSeq(manifest[DistNo(d)], relevant)
    ELSE <<>>

\* extractDebsFromIndex applied to the local index of d: the records, or an
\* error (gzip rejects damaged bytes, xz is not implemented)
extractDebsFromIndex(f, d, idxPath) ==
    LET localPath == Join(DistDir(d), idxPath)
    IN  IF /\ HasFile(f, localPath)
           /\ FileAt(f, localPath).readable
           /\ HasSuffix(localPath, ".gz")
           /\ FsRead(f, localPath) = UpstreamBody(Join(DistURL(d), idxPath))
        THEN [err |-> FALSE, packages |-> published[DistNo(d)]]
        ELSE [err |-> TRUE, packages |-> <<>>]

\* a verifyFile that compares the digest with the path instead of the checksum
verifyFileWrongOperand(f, filepath, expectedSHA256) ==
    IF ~FileAt(f, filepath).readable THEN "error"
    ELSE IF SHA256(FsRead(f, filepath)) = Len(filepath) THEN "match"
    ELSE "mismatch"

\* verifyFile: "error" when the file cannot be opened, else the comparison
verifyFile(f, filepath, expectedSHA256) ==
    IF ~FileAt(f, filepath).readable THEN "error"
    ELSE IF SHA256(FsRead(f, filepath)) = expectedSHA256 THEN "match"
    ELSE "mismatch"

(* ---------------------------- orchestrator ---------------------------- *)

Slots == {<<d, n>> \in (1..Len(Dists)) \X (1..2) : n <= Len(published[d])}


pipelineVars == << debs, sendIdx, verificationJobs, vw, downloadJobsChan, jobs,
                   jobChan, dw >>
diskVars == << fs, dirs, faults >>
envVars == << published, manifest, callerRuns, probe >>
counterVars == << validPackages, packagesDownloaded, totalPackages, progressChan >>
loopVars == << distIdx, metaIdx, indices, idxIdx >>

\* Mirror: a fresh progress channel and context, counters reset, doMirror started
Mirror ==
    /\ mpc = "idle"
    /\ run < callerRuns
    /\ run' = run + 1
    /\ cancelled' = FALSE
    /\ progressChan' = OpenChan
    /\ packagesDownloaded' = 0
    /\ totalPackages' = 0
    /\ distIdx' = 1
    /\ mpc' = "dists"
    /\ hist' = [hist EXCEPT !.observed = FALSE, !.reaped = {}, !.reaperCalls = 0,
                            !.pkgCalls = 0, !.dropped = 0, !.cancelEarly = FALSE,
                            !.inFlight = {}, !.prevSettled = hist.settled,
                            !.settled = FALSE,
                            !.status = [x \in DOMAIN @ |-> "Unknown"]]
    /\ UNCHANGED << envVars, diskVars, metaIdx, indices, idxIdx, call,
                    validPackages, pipelineVars >>

\* the caller of Mirror cancels the context of a run, one of runs
CancelIn(runs) ==
    /\ mpc # "idle"
    /\ run \in runs
    /\ ~cancelled
    /\ cancelled' = TRUE
    /\ hist' = [hist EXCEPT
           !.cancelEarly = mpc \notin {"reap", "close"} /\ distIdx <= Len(Dists),
           !.inFlight = {t \in Threads : call[t].pc = "copy"}]
    /\ UNCHANGED << envVars, diskVars, run, mpc, loopVars, call, counterVars,
                    pipelineVars >>

\* the caller of Mirror cancels the context of a run (of its last run,
\* when it makes several)
Cancel == CancelIn({callerRuns})

\* the caller cancels a run after which it calls Mirror again
CancelEarlier == CancelIn(1..(callerRuns - 1))

\* doMirror: head of the loop over the first n distributions, entry of
\* mirrorDistribution
NextDistWith(n) ==
    /\ mpc = "dists"
    /\ IF distIdx > n THEN mpc' = "reap" /\ UNCHANGED metaIdx
       ELSE IF cancelled THEN mpc' = "close" /\ UNCHANGED metaIdx
       ELSE mpc' = "meta" /\ metaIdx' = 1
    /\ UNCHANGED << envVars, diskVars, run, cancelled, distIdx, indices, idxIdx,
                    call, counterVars, pipelineVars, hist >>

\* a loop that leaves after the first distribution
NextDistFirstOnly == NextDistWith(1)

\* doMirror: the loop ranges over config.Dists
NextDist == NextDistWith(Len(Dists))

\* mirrorDistribution, step 1: the next metadata file is requested
FetchMetadata ==
    /\ mpc = "meta"
    /\ IF metaIdx > Len(MetadataFiles)
       THEN mpc' = "release" /\ UNCHANGED << diskVars, call, distIdx >>
       ELSE IF cancelled
       THEN mpc' = "dists" /\ distIdx' = distIdx + 1 /\ UNCHANGED << diskVars, call >>
       ELSE /\ DownloadFileBegin(Main, Join(DistURL(Dist), MetadataFiles[metaIdx]),
                                 Join(DistDir(Dist), MetadataFiles[metaIdx]),
                                 NoChecksum, <<>>)
            /\ mpc' = "metaWait"
            /\ UNCHANGED distIdx
    /\ UNCHANGED << envVars, run, cancelled, metaIdx, indices, idxIdx,
                    counterVars, pipelineVars, hist >>

\* mirrorDistribution, step 1: DownloadFile returned; an error is only warned
MetadataFetched ==
    /\ mpc = "metaWait"
    /\ call[Main].pc = "ret"
    /\ call' = [call EXCEPT ![Main] = NoCall]
    /\ metaIdx' = metaIdx + 1
    /\ mpc' = "meta"
    /\ UNCHANGED << envVars, diskVars, run, cancelled, distIdx, indices, idxIdx,
                    counterVars, pipelineVars, hist >>

\* mirrorDistribution, step 2: the local Release file is read and parsed; a
\* read error returns to doMirror, which continues at onError
ReadReleaseWith(onError) ==
    LET releasePath == Join(DistDir(Dist), "Release")
    IN  /\ mpc = "release"
        /\ IF HasFile(fs, releasePath) /\ FileAt(fs, releasePath).readable
           THEN /\ indices' = parseReleaseFile(Dist, FsRead(fs, releasePath))
                /\ idxIdx' = 1
                /\ mpc' = "indices"
                /\ UNCHANGED distIdx
           ELSE /\ distIdx' = distIdx + 1
                /\ mpc' = onError
                /\ UNCHANGED << indices, idxIdx >>
        /\ UNCHANGED << envVars, diskVars, run, cancelled, metaIdx, call,
                        counterVars, pipelineVars, hist >>

\* a read error of Release that ends the loop over the distributions
ReadReleaseFatal == ReadReleaseWith("close")

\* doMirror logs the error of mirrorDistribution and takes the next distribution
ReadRelease == ReadReleaseWith("dists")

\* mirrorDistribution, step 3: head of the loop over indices, the index is requested
FetchIndex ==
    /\ mpc = "indices"
    /\ IF idxIdx > Len(indices) \/ cancelled
       THEN mpc' = "dists" /\ distIdx' = distIdx + 1 /\ UNCHANGED << diskVars, call >>
       ELSE /\ DownloadFileBegin(Main, Join(DistURL(Dist), indices[idxIdx]),
                                 Join(DistDir(Dist), indices[idxIdx]), NoChecksum, <<>>)
            /\ mpc' = "indexWait"
            /\ UNCHANGED distIdx
    /\ UNCHANGED << envVars, run, cancelled, metaIdx, indices, idxIdx,
                    counterVars, pipelineVars, hist >>

\* createByHashLink: the directory of the aliases of an index file
ByHashDir(originalPath) == Join(Join(Dir(originalPath), "by-hash"), "SHA256")

\* createByHashLink: the alias path of an index file
ByHashPath(originalPath, hash) == Join(ByHashDir(originalPath), ToString(hash))

\* an alias that is left alone when one is already there
createByHashLinkKeepExisting(f, originalPath, hash, linkFails) ==
    LET targetPath == ByHashPath(originalPath, hash)
    IN  IF HasFile(f, targetPath) THEN f
        ELSE IF linkFails
        THEN f \cup {NewFile(targetPath, FsRead(f, originalPath), TRUE)}
        ELSE FsLink(f, originalPath, targetPath)

\* createByHashLink after MkdirAll: Remove of a stale alias, then Link, or
\* the copy when Link fails
createByHashLink(f, originalPath, hash, linkFails) ==
    LET targetPath == ByHashPath(originalPath, hash)
        fresh == IF HasFile(f, targetPath) THEN FsRemove(f, targetPath) ELSE f
    IN  IF linkFails
        THEN fresh \cup {NewFile(targetPath, FsRead(fresh, originalPath), TRUE)}
        ELSE FsLink(fresh, originalPath, targetPath)

\* the loop of mirrorDistribution moves to the next index
NextIndex == idxIdx' = idxIdx + 1 /\ mpc' = "indices"

\* processPackageIndex returns after its workers have: its locals are gone
ReturnFromIndex ==
    /\ NextIndex
    /\ debs' = <<>>
    /\ sendIdx' = 1
    /\ downloadJobsChan' = <<>>
    /\ jobs' = <<>>
    /\ jobChan' = OpenChan
    /\ dw' = NoWorkers

\* a test that takes every index for a package list
IsPackageListAlways(idxPath) == TRUE

\* mirrorDistribution: only "Packages" files are searched for .debs
IsPackageList(idxPath) == Contains(idxPath, "Packages")

\* mirrorDistribution after createByHashLink: a package list is decoded
SearchIndex ==
    IF IsPackageList(indices[idxIdx])
    THEN mpc' = "ppi" /\ UNCHANGED idxIdx
    ELSE NextIndex

\* mirrorDistribution, step 3: DownloadFile of the index returned; on
\* success the by-hash alias is published; a failure there is only warned
\* (or, with aliasFatal, skips the index)
IndexFetchedWith(aliasFatal) ==
    LET c == call[Main]
        byHashDir == ByHashDir(c.dest)
    IN  /\ mpc = "indexWait"
        /\ c.pc = "ret"
        /\ call' = [call EXCEPT ![Main] = NoCall]
        /\ IF ~c.ok
           THEN NextIndex /\ UNCHANGED diskVars
           ELSE \/ /\ CanFail /\ Fail            \* MkdirAll of by-hash failed
                   /\ UNCHANGED << fs, dirs >>
                   /\ IF aliasFatal THEN NextIndex ELSE SearchIndex
                \/ /\ dirs' = dirs \cup Ancestors[byHashDir]
                   /\ \/ NoFail /\ fs' = createByHashLink(fs, c.dest, c.hash, FALSE)
                      \/ /\ CanFail /\ Fail      \* Link failed: copy
                         /\ fs' = createByHashLink(fs, c.dest, c.hash, TRUE)
                   /\ SearchIndex
        /\ UNCHANGED << envVars, run, cancelled, distIdx, metaIdx, indices,
                        counterVars, pipelineVars, hist >>

\* an alias that cannot be published skips the index
IndexFetchedAliasFatal == IndexFetchedWith(TRUE)

\* mirrorDistribution warns about the error of createByHashLink and goes on
IndexFetched == IndexFetchedWith(FALSE)

\* an update of the valid set that records nothing
TrackedNone(packages) == {}

\* processPackageIndex: the keys set in validPackages for the decoded records
Tracked(packages) == {packages[n].Path : n \in 1..Len(packages)}

\* processPackageIndex up to the start of the verification workers; a
\* decoding error ends it, and the caller goes on with the next index (or,
\* with abort, leaves the distribution)
ProcessPackageIndexWith(abort) ==
    LET r == extractDebsFromIndex(fs, Dist, indices[idxIdx])
    IN  /\ mpc = "ppi"
        /\ IF r.err
           THEN /\ IF abort
                   THEN mpc' = "dists" /\ distIdx' = distIdx + 1 /\ UNCHANGED idxIdx
                   ELSE NextIndex /\ UNCHANGED distIdx
                /\ UNCHANGED << validPackages, totalPackages, pipelineVars >>
           ELSE /\ debs' = r.packages
                /\ validPackages' = validPackages \cup Tracked(r.packages)
                /\ totalPackages' = totalPackages + Len(r.packages)
                /\ verificationJobs' = OpenChan
                /\ downloadJobsChan' = <<>>
                /\ vw' = [w \in Pool |-> [pc |-> "recv"]]
                /\ sendIdx' = 1
                /\ mpc' = "sendV"
                /\ UNCHANGED << distIdx, idxIdx, jobs, jobChan, dw >>
        /\ UNCHANGED << envVars, diskVars, run, cancelled, metaIdx,
                        indices, call, packagesDownloaded, progressChan, hist >>

\* a decoding error that ends the distribution
ProcessPackageIndexAbort == ProcessPackageIndexWith(TRUE)

\* processPackageIndex as called in the loop over the indices
ProcessPackageIndex == ProcessPackageIndexWith(FALSE)

\* processPackageIndex, step 2: one verification job is sent, or the
\* channel is closed after the last; once cancelled the select may also
\* take ctx.Done and leave the loop, the channel still open: by a return
\* (as the code does) or by a break
SendVerificationWith(returns) ==
    /\ mpc = "sendV"
    /\ \/ /\ sendIdx <= Len(debs)
          /\ verificationJobs' = [verificationJobs EXCEPT !.buf =
                 Append(@, [pkg |-> debs[sendIdx],
                            localPath |-> Join(DownloadPath, debs[sendIdx].Path),
                            slot |-> <<distIdx, sendIdx>>])]
          /\ sendIdx' = sendIdx + 1
          /\ UNCHANGED << mpc, idxIdx >>
       \/ /\ sendIdx <= Len(debs)
          /\ cancelled
          /\ IF returns THEN NextIndex ELSE mpc' = "collect" /\ UNCHANGED idxIdx
          /\ UNCHANGED << verificationJobs, sendIdx >>
       \/ /\ sendIdx > Len(debs)
          /\ verificationJobs' = [verificationJobs EXCEPT !.closed = TRUE]
          /\ mpc' = "collect"
          /\ UNCHANGED << sendIdx, idxIdx >>
    /\ UNCHANGED << envVars, diskVars, run, cancelled, distIdx, metaIdx, indices,
                    call, counterVars, debs, vw, downloadJobsChan, jobs, jobChan,
                    dw, hist >>

\* the send loop leaving by break when the context is done
SendVerificationBreak == SendVerificationWith(FALSE)

\* processPackageIndex, step 2
SendVerification == SendVerificationWith(TRUE)

\* a verification worker takes the next job and checks ctx.Err(), or
\* finds the channel closed and empty
VerifierDequeue(w) ==
    /\ vw[w].pc = "recv"
    /\ IF verificationJobs.buf # <<>>
       THEN /\ verificationJobs' = [verificationJobs EXCEPT !.buf = Tail(@)]
            /\ IF cancelled
               THEN /\ vw' = [vw EXCEPT ![w] = [pc |-> "done"]]
                    /\ hist' = [hist EXCEPT !.observed = TRUE]
               ELSE /\ vw' = [vw EXCEPT ![w] =
                           [pc |-> "verify", job |-> Head(verificationJobs.buf)]]
                    /\ UNCHANGED hist
       ELSE /\ verificationJobs.closed
            /\ vw' = [vw EXCEPT ![w] = [pc |-> "done"]]
            /\ UNCHANGED << verificationJobs, hist >>
    /\ UNCHANGED << envVars, diskVars, run, cancelled, mpc, loopVars, call,
                    counterVars, debs, sendIdx, downloadJobsChan, jobs, jobChan, dw >>

\* a decision that only looks at Stat
NeedsDownloadIfMissing(f, job) == ~HasFile(f, job.localPath)

\* a decision that keeps a file verifyFile could not open
NeedsDownloadUnlessError(f, job) ==
    \/ ~HasFile(f, job.localPath)
    \/ verifyFile(f, job.localPath, job.pkg.SHA256) = "mismatch"

\* the decision of a verification worker for one job: Stat, then verifyFile
NeedsDownload(f, job) ==
    \/ ~HasFile(f, job.localPath)
    \/ verifyFile(f, job.localPath, job.pkg.SHA256) # "match"

\* a verification worker handles its job: keep, or push a download job;
\* once cancelled the select may take ctx.Done and return instead
VerifierProcess(w) ==
    LET job == vw[w].job
    IN  /\ vw[w].pc = "verify"
        /\ IF ~NeedsDownload(fs, job)
           THEN /\ vw' = [vw EXCEPT ![w] = [pc |-> "recv"]]
                /\ hist' = [hist EXCEPT !.status[job.slot] = "VerifiedKept"]
                /\ UNCHANGED downloadJobsChan
           ELSE \/ /\ downloadJobsChan' = Append(downloadJobsChan,
                          [URL |-> Join(RepoURL, job.pkg.Path), Dest |-> job.localPath,
                           Checksum |-> job.pkg.SHA256, slot |-> job.slot])
                   /\ vw' = [vw EXCEPT ![w] = [pc |-> "recv"]]
                   /\ hist' = [hist EXCEPT !.status[job.slot] = "Queued"]
                \/ /\ cancelled
                   /\ vw' = [vw EXCEPT ![w] = [pc |-> "done"]]
                   /\ UNCHANGED << downloadJobsChan, hist >>
        /\ UNCHANGED << envVars, diskVars, run, cancelled, mpc, loopVars, call,
                        counterVars, debs, sendIdx, verificationJobs, jobs, jobChan, dw >>

AllDone(workers) == \A w \in Pool : workers[w].pc = "done"

\* processPackageIndex, steps 3 and 4: once every verifier has returned
\* (waited) the queue of download candidates is closed and the loop over
\* it ends with the candidates collected; the download workers start
CollectJobsWith(waited, collected) ==
    /\ mpc = "collect"
    /\ waited
    /\ IF collected = <<>>
       THEN ReturnFromIndex
       ELSE /\ jobs' = collected
            /\ jobChan' = OpenChan
            /\ dw' = [w \in Pool |-> [pc |-> "recv"]]
            /\ sendIdx' = 1
            /\ mpc' = "sendD"
            /\ UNCHANGED << idxIdx, debs, downloadJobsChan >>
    /\ UNCHANGED << envVars, diskVars, run, cancelled, distIdx, metaIdx, indices,
                    call, counterVars, verificationJobs, vw, hist >>

\* a collection loop that stops one job short
CollectJobsLossy ==
    CollectJobsWith(AllDone(vw), SubSeq(downloadJobsChan, 1, Len(downloadJobsChan) - 1))

\* a queue of download candidates closed without waiting for the verifiers
CollectJobsEarly == CollectJobsWith(TRUE, downloadJobsChan)

\* processPackageIndex, steps 3 and 4: for job := range downloadJobsChan
CollectJobs == CollectJobsWith(AllDone(vw), downloadJobsChan)

\* processPackageIndex, step 5: one download job is sent, or the channel
\* is closed: after the last job, or when the select takes ctx.Done, after
\* which the function is at afterDone
SendDownloadWith(afterDone) ==
    /\ mpc = "sendD"
    /\ \/ /\ sendIdx <= Len(jobs)
          /\ jobChan' = [jobChan EXCEPT !.buf = Append(@, jobs[sendIdx])]
          /\ sendIdx' = sendIdx + 1
          /\ UNCHANGED mpc
       \/ /\ sendIdx > Len(jobs)
          /\ jobChan' = [jobChan EXCEPT !.closed = TRUE]
          /\ mpc' = "waitD"
          /\ UNCHANGED sendIdx
       \/ /\ sendIdx <= Len(jobs)
          /\ cancelled
          /\ jobChan' = [jobChan EXCEPT !.closed = TRUE]
          /\ mpc' = afterDone
          /\ UNCHANGED sendIdx
    /\ UNCHANGED << envVars, diskVars, run, cancelled, loopVars, call, counterVars,
                    debs, verificationJobs, vw, downloadJobsChan, jobs, dw, hist >>

\* a send loop that closes the channel on ctx.Done and goes on sending
SendDownloadGoesOn == SendDownloadWith("sendD")

\* processPackageIndex, step 5: on ctx.Done close, wait and return
SendDownload == SendDownloadWith("waitD")

\* a download worker takes the next job, checks ctx.Err() (ctxErr) and
\* calls DownloadFile, or finds the channel closed and empty
DownloaderDequeueWith(w, ctxErr) ==
    /\ dw[w].pc = "recv"
    /\ IF jobChan.buf # <<>>
       THEN /\ jobChan' = [jobChan EXCEPT !.buf = Tail(@)]
            /\ IF ctxErr
               THEN /\ dw' = [dw EXCEPT ![w] = [pc |-> "done"]]
                    /\ hist' = [hist EXCEPT !.observed = TRUE]
                    /\ UNCHANGED << diskVars, call >>
               ELSE /\ LET job == Head(jobChan.buf)
                       IN  DownloadFileBegin(w, job.URL, job.Dest, job.Checksum, job.slot)
                    /\ dw' = [dw EXCEPT ![w] = [pc |-> "download"]]
                    /\ hist' = [hist EXCEPT !.pkgCalls = @ + 1]
       ELSE /\ jobChan.closed
            /\ dw' = [dw EXCEPT ![w] = [pc |-> "done"]]
            /\ UNCHANGED << diskVars, call, jobChan, hist >>
    /\ UNCHANGED << envVars, run, cancelled, mpc, loopVars, counterVars, debs,
                    sendIdx, verificationJobs, vw, downloadJobsChan, jobs >>

\* a download worker that never looks at the context
DownloaderDequeueNoCtx(w) == DownloaderDequeueWith(w, FALSE)

\* the loop head of a download worker
DownloaderDequeue(w) == DownloaderDequeueWith(w, cancelled)

\* io.Copy inside a DownloadFile call of goroutine t
Copy(t) ==
    /\ DownloadFileCopy(t)
    /\ UNCHANGED << envVars, run, cancelled, mpc, loopVars, counterVars,
                    pipelineVars >>

\* the end of a DownloadFile call of goroutine t
Commit(t) ==
    /\ DownloadFileCommit(t)
    /\ UNCHANGED << envVars, run, cancelled, mpc, loopVars, counterVars,
                    pipelineVars >>

\* a select whose only case is the send: it waits for room in the channel
ProgressSelectNoDefault(ch, update) ==
    IF Len(ch.buf) < ProgressCap THEN {[ch EXCEPT !.buf = Append(@, update)]} ELSE {}

\* the select that sends a progress update: the channel states it may
\* leave; the default case is taken when the buffer is full
ProgressSelect(ch, update) ==
    IF Len(ch.buf) < ProgressCap THEN {[ch EXCEPT !.buf = Append(@, update)]} ELSE {ch}

\* an update that carries the count as it was before the download
ProgressUpdateBefore(downloaded, total, dest) ==
    [PackagesDownloaded |-> downloaded - 1, TotalPackages |-> total,
     CurrentFile |-> Base(dest)]

\* the ProgressUpdate sent after d.packagesDownloaded++
ProgressUpdate(downloaded, total, dest) ==
    [PackagesDownloaded |-> downloaded, TotalPackages |-> total,
     CurrentFile |-> Base(dest)]

\* a download worker after DownloadFile returned: a failure is warned (and
\* the worker goes on at afterError), a success is counted and reported
\* under the mutex
DownloaderReturnWith(w, afterError) ==
    LET c == call[w]
        update == ProgressUpdate(packagesDownloaded + 1, totalPackages, c.dest)
    IN  /\ dw[w].pc = "download"
        /\ c.pc = "ret"
        /\ call' = [call EXCEPT ![w] = NoCall]
        /\ dw' = [dw EXCEPT ![w] = [pc |-> IF c.ok THEN "recv" ELSE afterError]]
        /\ IF c.ok
           THEN /\ packagesDownloaded' = packagesDownloaded + 1
                /\ progressChan' \in ProgressSelect(progressChan, update)
                /\ hist' = [hist EXCEPT
                       !.status[c.slot] = "Committed",
                       !.dropped = IF progressChan' = progressChan THEN @ + 1 ELSE @]
           ELSE /\ hist' = [hist EXCEPT !.status[c.slot] = "Failed"]
                /\ UNCHANGED << packagesDownloaded, progressChan >>
        /\ UNCHANGED << envVars, diskVars, run, cancelled, mpc, loopVars,
                        validPackages, totalPackages, debs, sendIdx, verificationJobs,
                        vw, downloadJobsChan, jobs, jobChan >>

\* a download worker that returns at the first failed download
DownloaderReturnStop(w) == DownloaderReturnWith(w, "done")

\* a download worker after DownloadFile returned: on to the next job
DownloaderReturn(w) == DownloaderReturnWith(w, "recv")

\* processPackageIndex, step 6: wg.Wait() returns, and so does the function
WaitDownloads ==
    /\ mpc = "waitD"
    /\ AllDone(dw)
    /\ ReturnFromIndex
    /\ UNCHANGED << envVars, diskVars, run, cancelled, distIdx, metaIdx, indices,
                    call, counterVars, verificationJobs, vw, hist >>

\* fs.WalkDir(root, fn): every entry at or below root
WalkDir(f, ds, root) ==
    {[path |-> p, isDir |-> TRUE] : p \in {q \in ds : q = root \/ HasPrefix(q, root \o "/")}}
    \cup
    {[path |-> p, isDir |-> FALSE] :
        p \in {q \in UNION {i.paths : i \in f} : HasPrefix(q, root \o "/")}}

\* the callback without the lookup in validPackages
IsOrphanAnyDeb(entry, valid) ==
    /\ ~entry.isDir
    /\ HasSuffix(entry.path, ".deb")

\* cleanupOrphanedPackages: the callback of WalkDir decides what toRemove holds
IsOrphan(entry, valid) ==
    /\ ~entry.isDir
    /\ HasSuffix(entry.path, ".deb")
    /\ Rel(DownloadPath, entry.path) \notin valid

\* a cleanup that walks the storage root without looking for the pool
toRemoveFromRoot(f, ds, valid) ==
    {e.path : e \in {x \in WalkDir(f, ds, DownloadPath) : IsOrphan(x, valid)}}

\* cleanupOrphanedPackages: the paths it removes
toRemove(f, ds, valid) ==
    LET poolPath == Join(DownloadPath, "pool")
    IN  IF poolPath \notin ds THEN {}
        ELSE {e.path : e \in {x \in WalkDir(f, ds, poolPath) : IsOrphan(x, valid)}}

\* the Remove loop of cleanupOrphanedPackages, on the files
RECURSIVE RemoveAll(_, _)
RemoveAll(f, paths) ==
    IF paths = {} THEN f
    ELSE LET p == CHOOSE q \in paths : TRUE
         IN  RemoveAll(FsRemove(f, p), paths \ {p})

\* the Remove loop of cleanupOrphanedPackages, on the directories:
\* os.Remove deletes a directory only when it is empty
RemoveDirs(f, ds, paths) ==
    ds \ {d \in paths \cap ds : WalkDir(f, ds, d) = {[path |-> d, isDir |-> TRUE]}}

\* doMirror after the loop: cleanupOrphanedPackages unless ctx.Err() (ctxErr)
ReapWith(ctxErr) ==
    /\ mpc = "reap"
    /\ IF ctxErr
       THEN UNCHANGED << fs, dirs, hist >>
       ELSE /\ fs' = RemoveAll(fs, toRemove(fs, dirs, validPackages))
            /\ dirs' = RemoveDirs(fs, dirs, toRemove(fs, dirs, validPackages))
            /\ hist' = [hist EXCEPT !.reaped = toRemove(fs, dirs, validPackages),
                                    !.reaperCalls = @ + 1]
    /\ mpc' = "close"
    /\ UNCHANGED << envVars, faults, run, cancelled, loopVars, call,
                    counterVars, pipelineVars >>

\* a doMirror that cleans up whatever the context says
ReapAlways == ReapWith(FALSE)

\* doMirror after the loop
Reap == ReapWith(cancelled)

\* Mirror's goroutine: doMirror returned, the deferred close runs
CloseProgress ==
    /\ mpc = "close"
    /\ progressChan' = [progressChan EXCEPT !.closed = TRUE]
    /\ mpc' = "idle"
    /\ hist' = [hist EXCEPT !.settled =
           \A x \in Slots : hist.status[x] \in {"VerifiedKept", "Committed"}]
    /\ UNCHANGED << envVars, diskVars, run, cancelled, loopVars, call,
                    validPackages, packagesDownloaded, totalPackages, pipelineVars >>

\* the caller of Mirror receives one update from the progress channel
Consume ==
    /\ progressChan.buf # <<>>
    /\ progressChan' = [progressChan EXCEPT !.buf = Tail(@)]
    /\ UNCHANGED << envVars, diskVars, run, cancelled, mpc, loopVars, call,
                    validPackages, packagesDownloaded, totalPackages, pipelineVars,
                    hist >>

(* --------------------------- initial states --------------------------- *)

PoolDir == Join(DownloadPath, "pool")

\* a mirror left by earlier runs: an orphan, a readme, a directory whose
\* name ends in .deb, and package a in the given state
Populated(a) ==
    [fs |-> {NewFile(Join(DownloadPath, Orphan), Body(LocalByte), TRUE),
             NewFile(Join(DownloadPath, Readme), Body(LocalByte), TRUE)} \cup a,
     dirs |-> {DownloadPath, PoolDir, Join(PoolDir, "dir.deb")}]

LocalA(byte, readable) == {NewFile(Join(DownloadPath, PkgA), Body(byte), readable)}

\* the local disks a run may start from: a populated pool in which
\* package a is missing, current, out of date, or unreadable
Disks ==
    { Populated({}),
      Populated(LocalA(ByteOf(Join(RepoURL, PkgA)), TRUE)),
      Populated(LocalA(StaleByte, TRUE)),
      Populated(LocalA(ByteOf(Join(RepoURL, PkgA)), FALSE)) }

\* what each Release file lists when a distribution has the one package list
OneIndex == [d \in 1..Len(Dists) |-> <<PlainIndexPath, IndexPath>>]

\* the repository object after NewDittoRepo, with n Mirror calls to come,
\* over the given local disks, upstream package lists and upstream manifests
Constructed(n, disks, lists, manifests) ==
    /\ published \in lists
    /\ manifest \in manifests
    /\ callerRuns = n
    /\ \E disk \in disks :
          /\ fs = disk.fs
          /\ dirs = disk.dirs
          /\ hist = [initial |-> disk.fs, committed |-> {}, observed |-> FALSE,
                     reaped |-> {}, reaperCalls |-> 0, pkgCalls |-> 0, dropped |-> 0,
                     cancelEarly |-> FALSE, inFlight |-> {}, settled |-> FALSE,
                     prevSettled |-> FALSE,
                     status |-> [x \in (1..Len(Dists)) \X (1..2) |-> "Unknown"]]
    /\ faults = 0
    /\ run = 0
    /\ cancelled = FALSE
    /\ mpc = "idle"
    /\ distIdx = 1
    /\ metaIdx = 1
    /\ indices = <<>>
    /\ idxIdx = 1
    /\ call = [t \in Threads |-> NoCall]
    /\ validPackages = {}
    /\ packagesDownloaded = 0
    /\ totalPackages = 0
    /\ progressChan = [closed |-> TRUE, buf |-> <<>>]
    /\ debs = <<>>
    /\ sendIdx = 1
    /\ verificationJobs = OpenChan
    /\ vw = NoWorkers
    /\ downloadJobsChan = <<>>
    /\ jobs = <<>>
    /\ jobChan = OpenChan
    /\ dw = NoWorkers

\* no function is applied on its own
NoProbe == [fn |-> "none"]

\* the state before the first of n Mirror calls
InitOf(n, disks, lists, manifests) ==
    /\ Constructed(n, disks, lists, manifests)
    /\ probe = NoProbe

\* the same with the upstream of the two or three packages
InitWith(n, disks) == InitOf(n, disks, {<<v, D2Stanzas>> : v \in D1Variants}, {OneIndex})

Init == InitWith(1, Disks)

Next ==
    \/ Mirror
    \/ Cancel
    \/ NextDist
    \/ FetchMetadata
    \/ MetadataFetched
    \/ ReadRelease
    \/ FetchIndex
    \/ IndexFetched
    \/ ProcessPackageIndex
    \/ SendVerification
    \/ \E w \in Pool : VerifierDequeue(w)
    \/ \E w \in Pool : VerifierProcess(w)
    \/ CollectJobs
    \/ SendDownload
    \/ \E w \in Pool : DownloaderDequeue(w)
    \/ \E t \in Threads : Copy(t)
    \/ \E t \in Threads : Commit(t)
    \/ \E w \in Pool : DownloaderReturn(w)
    \/ WaitDownloads
    \/ Reap
    \/ CloseProgress
    \/ Consume

\* one Mirror call on a fresh repository object
Spec == Init /\ [][Next]_vars

\* the steps of the program's goroutines (not of Mirror's caller)
Program ==
    \/ NextDist \/ FetchMetadata \/ MetadataFetched \/ ReadRelease \/ FetchIndex
    \/ IndexFetched \/ ProcessPackageIndex \/ SendVerification \/ CollectJobs
    \/ SendDownload \/ WaitDownloads \/ Reap \/ CloseProgress
    \/ \E w \in Pool : VerifierDequeue(w) \/ VerifierProcess(w)
    \/ \E w \in Pool : DownloaderDequeue(w) \/ DownloaderReturn(w)
    \/ \E t \in Threads : Copy(t) \/ Commit(t)

\* one Mirror call; a goroutine that can run is eventually run, and io.Copy,
\* Close and Rename return; the caller need not cancel nor read the channel
\* the runs whose termination is examined start from a pool without package a
InitLive == InitWith(1, {Populated({})})

SpecLive == InitLive /\ [][Next]_vars /\ WF_vars(Program)

\* a Release file of d1 that lists a translation list, the package list in
\* xz and the package list in gzip
ManyIndices ==
    [d \in 1..Len(Dists) |->
        IF d = 1 THEN <<TranslationPath, PlainIndexPath, XzIndexPath, IndexPath>>
        ELSE <<PlainIndexPath, IndexPath>>]

\* the by-hash alias of the index idxPath of distribution d as published upstream
AliasOf(d, idxPath) ==
    ByHashPath(Join(DistDir(Dists[d]), idxPath),
               SHA256(UpstreamBody(Join(DistURL(Dists[d]), idxPath))))

\* a mirror in which the alias of the d1 package list is there with other bytes
StaleAlias ==
    [fs |-> Populated({}).fs \cup {NewFile(AliasOf(1, IndexPath), Body(StaleByte), TRUE)},
     dirs |-> Populated({}).dirs \cup Ancestors[Dir(AliasOf(1, IndexPath))]]

\* one Mirror call against the upstream with several indices
InitIndices ==
    InitOf(1, {StaleAlias}, {<< <<Meta(PkgA), Meta(PkgB)>>, D2Stanzas >>}, {ManyIndices})

SpecIndices == InitIndices /\ [][Next]_vars

\* MaxRuns Mirror calls in a row on one repository object, over a pool
\* in which package a is missing or out of date
InitRerun == InitWith(MaxRuns, {Populated({}), Populated(LocalA(StaleByte, TRUE))})

SpecRerun == InitRerun /\ [][Next]_vars

\* two Mirror calls on one repository object, of which the caller may
\* cancel either
InitAgain ==
    InitOf(MaxRuns, {Populated({})}, {<< <<Meta(PkgA), Meta(PkgB)>>, D2Stanzas >>}, {OneIndex})

NextAgain == CancelEarlier \/ Next

SpecAgain == InitAgain /\ [][NextAgain]_vars

\* an archive kept outside the pool
Stray == "incoming/x.deb"

\* a mirror that has no pool directory yet
Unpooled ==
    [fs |-> {NewFile(Join(DownloadPath, Stray), Body(LocalByte), TRUE)},
     dirs |-> {DownloadPath, Join(DownloadPath, "incoming")}]

\* what each Release file lists when the package list is only published
\* uncompressed
NoIndex == [d \in 1..Len(Dists) |-> <<PlainIndexPath>>]

\* one Mirror call on a mirror with or without a pool, against an upstream
\* with or without a package list to fetch
InitFresh ==
    InitOf(1, {Unpooled, Populated({})}, {<< <<Meta(PkgA), Meta(PkgB)>>, D2Stanzas >>},
           {NoIndex, OneIndex})

SpecFresh == InitFresh /\ [][Next]_vars

\* the filter lists a configuration may carry
FilterConfigs ==
    [Components : {<<>>, <<"main">>, <<"universe", "main">>},
     Archs : {<<>>, <<"amd64">>, <<"arm64", "amd64">>},
     Languages : {<<>>, <<"en">>, <<"de", "en">>}]

\* paths a Release file may list
FilterPaths ==
    {"main/binary-amd64/Packages.gz", "main/binary-arm64/Packages.xz",
     "universe/binary-amd64/Packages.gz", "mainline/binary-amd64/Packages.gz",
     "x/main/binary-amd64/Packages.gz", "main/binary-amd64/Release",
     "main/debian-installer/binary-amd64/Packages.gz",
     "main/i18n/Translation-en.gz", "main/i18n/Translation-en_GB.bz2",
     "main/i18n/Translation-de.gz", "main/Translation-en.gz",
     "main/cnf/Commands-amd64.xz", "main/cnf/Commands-arm64.xz",
     "main/Commands-amd64.xz", "main/source/Sources.gz"}

\* a Release file that lists path p among other entries
ManifestWith(p) ==
    <<"Origin: Ubuntu", "MD5Sum:", " 0f 12 " \o p, "SHA256:", " 1a 12 " \o p,
      " 2b 34 main/binary-amd64/Packages.gz", " 3c 56 main/i18n/Translation-en.gz",
      " 4d 78 main/cnf/Commands-amd64.xz">>

\* isDesired is applied to the path
Decide ==
    /\ probe.fn = "filter"
    /\ probe.desired = <<>>
    /\ probe' = [probe EXCEPT !.desired = <<isDesiredIn(probe.cfg, probe.path)>>]
    /\ UNCHANGED programVars

\* parseReleaseFile is applied to the Release file that lists the path
ParseListing ==
    /\ probe.fn = "filter"
    /\ probe.parsed = <<>>
    /\ probe' = [probe EXCEPT
                    !.parsed = <<parseReleaseLines(probe.cfg, ManifestWith(probe.path))>>]
    /\ UNCHANGED programVars

\* a repository object of any filter configuration, and a path
InitFilter ==
    /\ Constructed(0, {Populated({})}, {<< <<Meta(PkgA), Meta(PkgB)>>, D2Stanzas >>},
                   {OneIndex})
    /\ \E cfg \in FilterConfigs, path \in FilterPaths :
          probe = [fn |-> "filter", cfg |-> cfg, path |-> path,
                   desired |-> <<>>, parsed |-> <<>>]

NextFilter == Decide \/ ParseListing

SpecFilter == InitFilter /\ [][NextFilter]_vars

\* lines a Release file may hold: heads of checksum blocks, a SHA256 key
\* with a value on its line, a blank line, and entries that are listed,
\* of two fields, without extension, of another component, indented by a
\* tab, of four fields
ReleaseLines ==
    {"SHA256:", "SHA256: sums", "MD5Sum:", "",
     " 1a 12 main/binary-amd64/Packages.gz",
     " 2b 34 main/i18n/Translation-en.bz2",
     " 3c main/binary-amd64/Packages.xz",
     " 4d 56 main/binary-amd64/Packages",
     " 5e 78 universe/binary-amd64/Packages.xz",
     "\t6f 90 main/cnf/Commands-amd64.xz",
     " 7a 11 main/cnf/Commands-amd64.xz extra"}

\* the Release files of at most MaxLines lines
Manifests == UNION {[1..n -> ReleaseLines] : n \in 0..MaxLines}

\* parseReleaseFile is applied to the Release file
ParseManifest ==
    /\ probe.fn = "parse"
    /\ probe.out = <<>>
    /\ probe' = [probe EXCEPT !.out = <<parseReleaseLines(Config, probe.lines)>>,
                              !.split = ScanBlock(probe.lines, 1, FALSE)]
    /\ UNCHANGED programVars

\* a repository object of the configuration of the runs, and a Release file
InitManifest ==
    /\ Constructed(0, {Populated({})}, {<< <<Meta(PkgA), Meta(PkgB)>>, D2Stanzas >>},
                   {OneIndex})
    /\ \E lines \in Manifests :
          probe = [fn |-> "parse", lines |-> lines, out |-> <<>>, split |-> {}]

NextManifest == ParseManifest

SpecManifest == InitManifest /\ [][NextManifest]_vars

\* lines a package list may hold: blank and whitespace-only lines, another
\* field, the two keys with values, with an empty value, in another case
\* and indented
StanzaLines ==
    {"", " ", "Package: a",
     "Filename: pool/a.deb", "Filename: pool/b.deb", "Filename: ", "filename: pool/c.deb",
     "SHA256: 1a", "SHA256: 2b", " SHA256: 3c"}

\* the package lists of at most MaxStanzaLines lines
PackageLists == UNION {[1..n -> StanzaLines] : n \in 0..MaxStanzaLines}

\* the stanza scanner of extractDebsFromIndex is applied to the package list
ScanPackageList ==
    /\ probe.fn = "stanzas"
    /\ probe.out = <<>>
    /\ probe' = [probe EXCEPT !.out = <<extractDebsFromLines(probe.lines)>>]
    /\ UNCHANGED programVars

\* a repository object and a decompressed package list
InitStanzas ==
    /\ Constructed(0, {Populated({})}, {<< <<Meta(PkgA), Meta(PkgB)>>, D2Stanzas >>},
                   {OneIndex})
    /\ \E lines \in PackageLists : probe = [fn |-> "stanzas", lines |-> lines, out |-> <<>>]

NextStanzas == ScanPackageList

SpecStanzas == InitStanzas /\ [][NextStanzas]_vars

\* the worker count NewDittoRepo sets when none is configured
defaultWorkers == 5

\* a constructor that prefers the single Dist whenever it is set
NewDittoRepoDistFirst(config) ==
    [config EXCEPT !.Workers = IF @ <= 0 THEN defaultWorkers ELSE @,
                   !.Dists = IF config.Dist # "" THEN <<config.Dist>> ELSE @]

\* NewDittoRepo: the configuration the repository object keeps
NewDittoRepo(config) ==
    [config EXCEPT !.Workers = IF @ <= 0 THEN defaultWorkers ELSE @,
                   !.Dists = IF Len(@) = 0 /\ config.Dist # "" THEN <<config.Dist>> ELSE @]

\* the configurations a caller may pass
CallerConfigs ==
    [Dists : {<<>>, <<"d1">>, <<"d1", "d2">>, <<"d2", "d1">>},
     Dist : {"", "d0", "d1"},
     Workers : {-1, 0, 1, Workers}]

\* NewDittoRepo is called with the configuration
Construct ==
    /\ probe.fn = "config"
    /\ probe.repo = <<>>
    /\ probe' = [probe EXCEPT !.repo = <<NewDittoRepo(probe.config)>>]
    /\ UNCHANGED programVars

\* doMirror: the next distribution of config.Dists is mirrored
VisitDist ==
    /\ probe.fn = "config"
    /\ probe.repo # <<>>
    /\ ~probe.done
    /\ ~probe.cancelled
    /\ Len(probe.visited) < Len(probe.repo[1].Dists)
    /\ probe' = [probe EXCEPT
                    !.visited = Append(@, probe.repo[1].Dists[Len(probe.visited) + 1])]
    /\ UNCHANGED programVars

\* doMirror: the loop ends, after the last distribution or on ctx.Err()
LeaveLoop ==
    /\ probe.fn = "config"
    /\ probe.repo # <<>>
    /\ ~probe.done
    /\ probe.cancelled \/ Len(probe.visited) = Len(probe.repo[1].Dists)
    /\ probe' = [probe EXCEPT !.done = TRUE]
    /\ UNCHANGED programVars

\* the caller cancels the context of the loop
CancelLoop ==
    /\ probe.fn = "config"
    /\ probe.repo # <<>>
    /\ ~probe.done
    /\ ~probe.cancelled
    /\ probe' = [probe EXCEPT !.cancelled = TRUE]
    /\ UNCHANGED programVars

\* a caller's configuration before NewDittoRepo
InitConfig ==
    /\ Constructed(0, {Populated({})}, {<< <<Meta(PkgA), Meta(PkgB)>>, D2Stanzas >>},
                   {OneIndex})
    /\ \E config \in CallerConfigs :
          probe = [fn |-> "config", config |-> config, repo |-> <<>>, visited |-> <<>>,
                   cancelled |-> FALSE, done |-> FALSE]

NextConfig == Construct \/ VisitDist \/ LeaveLoop \/ CancelLoop

SpecConfig == InitConfig /\ [][NextConfig]_vars

(* ------------------------------ properties ----------------------------- *)

\* every path DownloadFile is given as a destination
Destinations ==
    {Join(DownloadPath, p) : p \in {PkgA, PkgB, PkgC}}
    \cup {Join(DistDir(Dists[d]), m) :
            d \in 1..Len(Dists), m \in {"InRelease", "Release", "Release.gpg", IndexPath}}

\* the destinations some package index published upstream refers to
Referenced == {Join(DownloadPath, published[x[1]][x[2]].Path) : x \in Slots}

\* the files below the pool directory
PoolFiles(f) == {q \in UNION {i.paths : i \in f} : HasPrefix(q, PoolDir \o "/")}

\* goroutine t leaves DownloadFile after the checksum test in this step
Finishes(t) == call[t].pc = "copy" /\ call[t].off = BodyLen /\ call'[t].pc = "ret"

\* C1: in every reachable state each destination is absent, or holds what an
\* earlier run left there, or holds the complete body of a download that a
\* rename committed to it: nothing partial is ever visible at a destination.
C1_DestinationAtomic ==
    \A p \in Destinations :
        HasFile(fs, p) =>
            \/ HasFile(hist.initial, p) /\ FsRead(fs, p) = FsRead(hist.initial, p)
            \/ <<p, FsRead(fs, p)>> \in hist.committed

\* C2: a DownloadFile call with an expected hash renames only when the
\* SHA-256 of the streamed body equals it; on a mismatch it returns an error,
\* the temporary file is gone, and the destination is what it was before
\* the call.
C2_ChecksumGate ==
    [][\A t \in Threads :
          Finishes(t) /\ call[t].expected # NoChecksum =>
              /\ call'[t].ok => SHA256(call[t].body) = call[t].expected
              /\ SHA256(call[t].body) # call[t].expected =>
                    /\ ~call'[t].ok
                    /\ ~HasFile(fs', TmpPath(call[t].dest))
                    /\ Snap(fs', call[t].dest) = call[t].before]_vars

C4_NoReapAfterCancel ==
    hist.cancelEarly =>
        /\ hist.reaperCalls = 0
        /\ hist.reaped = {}
        /\ \A q \in PoolFiles(hist.initial) : HasFile(fs, q)
        /\ \A c \in hist.committed : HasFile(fs, c[1])

\* a run cancelled while packages were being downloaded has ended
C4_Witness ==
    /\ hist.cancelEarly
    /\ hist.pkgCalls > 0
    /\ run = 1
    /\ mpc = "idle"

\* C5: the cleanup deletes a pool archive only if no package index of a
\* configured distribution refers to it, also in a run where a manifest or
\* an index could not be fetched or decoded.
C5_ReapOnlyUnreferenced == \A p \in hist.reaped : p \notin Referenced

\* verification worker w starts to verify a record in this step
StartsVerify(w) == vw[w].pc = "recv" /\ vw'[w].pc = "verify"

\* goroutine t enters DownloadFile in this step
StartsDownload(t) == call[t].pc = "none" /\ call'[t].pc # "none"

\* C6: no verification and no DownloadFile call starts in a state where the
\* context is cancelled, none starts in a run after a worker has observed
\* the cancellation at a dequeue, and a DownloadFile call in flight can
\* always take its next step, cancelled or not.
C6_CancelAtDequeue ==
    /\ [][/\ \A w \in Pool : StartsVerify(w) => ~cancelled /\ ~hist.observed
          /\ \A t \in Threads : StartsDownload(t) => ~cancelled /\ ~hist.observed]_vars
    /\ [](\A t \in Threads : call[t].pc = "copy" => ENABLED (Copy(t) \/ Commit(t)))

\* a worker has observed the cancellation, and a call that was in flight
\* when it was raised has since committed
C6_Witness ==
    /\ cancelled
    /\ hist.observed
    /\ \E t \in hist.inFlight \cap Pool : call[t].pc = "ret" /\ call[t].ok

\* C7: the progress channel of every Mirror call is eventually closed,
\* whether the run completes or is cancelled, given that the goroutines
\* are scheduled and every DownloadFile call returns.
C7_ProgressClosed == (~progressChan.closed) ~> progressChan.closed

\* the channel of a cancelled run is closed while verification workers of
\* that run have not returned
C7_Witness ==
    /\ run = 1
    /\ cancelled
    /\ progressChan.closed
    /\ \E w \in Pool : vw[w].pc # "done"

\* C8: a download worker whose DownloadFile call returned can always take
\* its next step; with the progress channel full it drops the update, counts
\* the download and goes back to its queue; and the run ends.
C8_ProgressNeverBlocks ==
    /\ [](\A w \in Pool :
            dw[w].pc = "download" /\ call[w].pc = "ret" => ENABLED DownloaderReturn(w))
    /\ [][\A w \in Pool :
            /\ dw[w].pc = "download" /\ dw'[w].pc = "recv"
            /\ call[w].ok
            /\ Len(progressChan.buf) = ProgressCap
            => /\ progressChan' = progressChan
               /\ packagesDownloaded' = packagesDownloaded + 1]_vars
    /\ (hist.dropped > 0) ~> (mpc = "idle")

\* a run in which an update was dropped has ended with every record committed
C8_Witness ==
    /\ hist.dropped > 0
    /\ mpc = "idle"
    /\ Len(progressChan.buf) = ProgressCap
    /\ \A x \in Slots : hist.status[x] = "Committed"

\* what the verification step of worker w finds on disk
Exists(w) == HasFile(fs, vw[w].job.localPath)
SameHash(w) == Exists(w) /\ SHA256(FsRead(fs, vw[w].job.localPath)) = vw[w].job.pkg.SHA256
Readable(w) == Exists(w) /\ FileAt(fs, vw[w].job.localPath).readable

\* verification worker w finishes its record in this step
Decides(w) == vw[w].pc = "verify" /\ vw'[w].pc # "verify" /\ mpc' = mpc

\* the step queues a download of the record of worker w
Queues(w) ==
    /\ Len(downloadJobsChan') = Len(downloadJobsChan) + 1
    /\ downloadJobsChan'[Len(downloadJobsChan')].slot = vw[w].job.slot
    /\ downloadJobsChan'[Len(downloadJobsChan')].Dest = vw[w].job.localPath
    /\ downloadJobsChan'[Len(downloadJobsChan')].Checksum = vw[w].job.pkg.SHA256

\* the slots for which a download task exists
Tasked ==
    {downloadJobsChan[i].slot : i \in 1..Len(downloadJobsChan)}
    \cup {jobs[i].slot : i \in 1..Len(jobs)}
    \cup {jobChan.buf[i].slot : i \in 1..Len(jobChan.buf)}
    \cup {call[w].slot : w \in {t \in Pool : call[t].pc # "none"}}

\* C9 as stated: a record with no local file is queued, a record whose
\* local file has the record's hash is kept and not queued, and a record
\* whose local file has another hash is queued.
C9_AsStated ==
    [][\A w \in Pool : Decides(w) =>
          /\ ~Exists(w) => Queues(w)
          /\ SameHash(w) => downloadJobsChan' = downloadJobsChan
                            /\ hist'.status[vw[w].job.slot] = "VerifiedKept"
          /\ Exists(w) /\ ~SameHash(w) => Queues(w)]_vars

\* C9: a record whose local file can be read and has the record's hash is
\* kept and not queued; any other record (no file, another hash, a file
\* that cannot be read) is queued unless the run is cancelled, and then it
\* is queued or the worker returns; no download task exists for a record
\* that was kept.
C9_Verification ==
    /\ [][\A w \in Pool : Decides(w) =>
             /\ Readable(w) /\ SameHash(w) =>
                   /\ downloadJobsChan' = downloadJobsChan
                   /\ hist'.status[vw[w].job.slot] = "VerifiedKept"
                   /\ vw'[w].pc = "recv"
             /\ ~(Readable(w) /\ SameHash(w)) /\ ~cancelled => Queues(w)
             /\ ~(Readable(w) /\ SameHash(w)) /\ cancelled =>
                   \/ Queues(w)
                   \/ vw'[w].pc = "done" /\ downloadJobsChan' = downloadJobsChan]_vars
    /\ [](\A x \in Slots : hist.status[x] = "VerifiedKept" => x \notin Tasked)

\* of two records verified in one run, the first was kept and the second queued
C9_Witness ==
    /\ hist.status[<<1, 1>>] = "VerifiedKept"
    /\ hist.status[<<1, 2>>] = "Queued"
    /\ <<1, 2>> \in Tasked

\* C10: in a run that follows a run in which every record was committed or
\* kept, against the same upstream, no DownloadFile call is made for a
\* package, nothing is committed to the pool, and a record that is
\* resolved is resolved to VerifiedKept.
C10_Idempotent ==
    run >= 2 /\ hist.prevSettled =>
        /\ hist.pkgCalls = 0
        /\ Tasked = {}
        /\ \A x \in Slots : hist.status[x] \in {"Unknown", "VerifiedKept"}
        /\ mpc = "idle" /\ ~cancelled /\ faults = 0 =>
              \A x \in Slots : hist.status[x] = "VerifiedKept"

\* the second of two runs has ended with every record VerifiedKept
C10_Witness ==
    /\ run = 2
    /\ hist.prevSettled
    /\ mpc = "idle"
    /\ \A x \in Slots : hist.status[x] = "VerifiedKept"

\* the DownloadFile call of goroutine t found a local file with another hash
WasStale(t) ==
    /\ call[t].before[1] = "file"
    /\ SHA256(call[t].before[2]) # call[t].expected

\* C11: a record whose local file has another hash is fetched by one
\* DownloadFile call for its destination, never by two at once, and when
\* that call succeeds the destination's hash is the record's hash.
C11_OneRefetch ==
    /\ [](\A t, u \in Pool :
            t # u /\ call[t].pc = "copy" /\ call[u].pc = "copy" /\ WasStale(t)
            => call[t].dest # call[u].dest)
    /\ [][\A t \in Pool :
            Finishes(t) /\ call'[t].ok /\ WasStale(t) =>
                /\ HasFile(fs', call[t].dest)
                /\ SHA256(FsRead(fs', call[t].dest)) = call[t].expected]_vars

\* the states in which a record stays, and the moves of a record
Terminal == {"VerifiedKept", "Committed", "Failed"}
Moves ==
    {<<"Unknown", "VerifiedKept">>, <<"Unknown", "Queued">>,
     <<"Queued", "Committed">>, <<"Queued", "Failed">>}

\* C12: within a run a record only moves Unknown->VerifiedKept,
\* Unknown->Queued, Queued->Committed or Queued->Failed, and when
\* processPackageIndex returns in a run that is not cancelled every record
\* it decoded is VerifiedKept, Committed or Failed.
C12_RecordLifecycle ==
    [][/\ run' = run =>
             \A x \in Slots :
                 hist'.status[x] # hist.status[x] =>
                     <<hist.status[x], hist'.status[x]>> \in Moves
       /\ mpc \in {"collect", "waitD"} /\ mpc' = "indices" /\ ~cancelled =>
             \A n \in 1..Len(debs) : hist'.status[<<distIdx, n>>] \in Terminal]_vars

\* a run that was not cancelled has ended with one record kept, one
\* committed and one failed
C12_Witness ==
    /\ mpc = "idle"
    /\ run = 1
    /\ ~cancelled
    /\ hist.status[<<1, 1>>] = "VerifiedKept"
    /\ hist.status[<<1, 2>>] = "Committed"
    /\ hist.status[<<2, 1>>] = "Failed"

\* download worker w is done with a DownloadFile call that failed
FailedReturn(w) == dw[w].pc = "download" /\ dw'[w].pc # "download" /\ ~call[w].ok

\* C13: after a DownloadFile call failed its worker goes back to the queue,
\* the job is not queued again, the record is Failed and never gets another
\* call, and the orchestrator goes on: a run that is not cancelled ends
\* past the last distribution with no queued record left unattempted.
C13_FailureIsLocal ==
    /\ [][\A w \in Pool : FailedReturn(w) =>
             /\ dw'[w].pc = "recv"
             /\ jobChan' = jobChan
             /\ hist'.status[call[w].slot] = "Failed"
             /\ <<mpc', cancelled', distIdx', idxIdx'>> = <<mpc, cancelled, distIdx, idxIdx>>]_vars
    /\ [][\A w \in Pool : StartsDownload(w) => hist.status[call'[w].slot] = "Queued"]_vars
    /\ [](mpc = "idle" /\ run >= 1 /\ ~cancelled =>
             /\ distIdx > Len(Dists)
             /\ \A x \in Slots : hist.status[x] # "Queued")

\* the first download of a run failed, and the other download of that
\* index and the download of the next distribution were committed
C13_Witness ==
    /\ mpc = "idle"
    /\ run = 1
    /\ ~cancelled
    /\ hist.status[<<1, 1>>] = "Failed"
    /\ hist.status[<<1, 2>>] = "Committed"
    /\ hist.status[<<2, 1>>] = "Committed"

\* the stages of processPackageIndex after the decoding
Pipeline == {"sendV", "collect", "sendD", "waitD"}

\* C14: when the index at hand cannot be decoded, processPackageIndex
\* returns without starting a worker or registering a record and the loop
\* moves to the next index of the same distribution; the pipeline only ever
\* runs for a gzip index, never for an xz one; and a run without failure
\* or cancellation resolves every record of the package list that follows
\* the xz index in the manifest.
C14_FormatErrorSkipsIndex ==
    /\ [][mpc = "ppi" /\ mpc' # "ppi"
          /\ extractDebsFromIndex(fs, Dist, indices[idxIdx]).err =>
             /\ mpc' = "indices"
             /\ idxIdx' = idxIdx + 1
             /\ distIdx' = distIdx
             /\ <<vw', verificationJobs', downloadJobsChan', dw', call'>>
                  = <<vw, verificationJobs, downloadJobsChan, dw, call>>
             /\ <<validPackages', totalPackages', hist'>>
                  = <<validPackages, totalPackages, hist>>]_vars
    /\ [](mpc \in Pipeline => HasSuffix(indices[idxIdx], ".gz"))
    /\ [](mpc = "idle" /\ run = 1 /\ ~cancelled /\ faults = 0 =>
             \A x \in Slots : hist.status[x] \in Terminal)

\* the xz index of d1 was fetched and aliased, and the records of the gzip
\* index after it were committed
C14_Witness ==
    /\ mpc = "idle"
    /\ run = 1
    /\ HasFile(fs, Join(DistDir("d1"), XzIndexPath))
    /\ HasFile(fs, AliasOf(1, XzIndexPath))
    /\ HasFile(fs, AliasOf(1, IndexPath))
    /\ \A x \in Slots : hist.status[x] = "Committed"

\* the local Release file of the distribution at hand can be read
ReleaseReadable ==
    /\ HasFile(fs, Join(DistDir(Dist), "Release"))
    /\ FileAt(fs, Join(DistDir(Dist), "Release")).readable

\* the stages of mirrorDistribution that handle an index
IndexStages == {"indices", "indexWait", "ppi"} \cup Pipeline

\* C15: when the local Release file of a distribution cannot be read,
\* mirrorDistribution returns at once: no index is requested, no record is
\* registered, and doMirror is back at the head of its loop with the next
\* distribution; an index is only ever handled for a distribution whose
\* Release file is readable; and the head of the loop enters every
\* distribution that is left unless the run was cancelled.
C15_UnreadableReleaseSkipsDist ==
    /\ [][mpc = "release" /\ mpc' # "release" /\ ~ReleaseReadable =>
             /\ mpc' = "dists"
             /\ distIdx' = distIdx + 1
             /\ <<call', fs', hist', indices'>> = <<call, fs, hist, indices>>]_vars
    /\ [](mpc \in IndexStages /\ distIdx <= Len(Dists) => ReleaseReadable)
    /\ [][mpc = "dists" /\ mpc' # "dists" /\ distIdx <= Len(Dists) /\ ~cancelled =>
             mpc' = "meta" /\ metaIdx' = 1 /\ distIdx' = distIdx]_vars

\* Release of d1 could not be fetched, no record of d1 was looked at, and
\* the record of d2 was committed
C15_Witness ==
    /\ mpc = "idle"
    /\ run = 1
    /\ ~cancelled
    /\ ~HasFile(fs, Join(DistDir("d1"), "Release"))
    /\ \A x \in Slots : hist.status[x] = IF x[1] = 1 THEN "Unknown" ELSE "Committed"

\* DownloadFile of the index at hand returns success in this step
IndexArrives ==
    /\ mpc = "indexWait"
    /\ mpc' # "indexWait"
    /\ call[Main].pc = "ret"
    /\ call[Main].ok

\* the by-hash alias of the index just fetched is missing after the step
AliasMissing == ~HasFile(fs', ByHashPath(call[Main].dest, call[Main].hash))

\* the local package list of distribution d is the upstream one
IndexIntact(d) ==
    /\ HasFile(fs, Join(DistDir(Dists[d]), IndexPath))
    /\ FsRead(fs, Join(DistDir(Dists[d]), IndexPath))
         = UpstreamBody(Join(DistURL(Dists[d]), IndexPath))

\* C16: when the by-hash alias of a fetched package list cannot be
\* published, the list is decoded all the same: the run goes on to
\* processPackageIndex for the same index; and a run that was not cancelled
\* leaves every record of an intact package list resolved, with or without
\* its alias.
C16_AliasFailureNotFatal ==
    /\ [][IndexArrives /\ AliasMissing /\ IsPackageList(indices[idxIdx]) =>
             mpc' = "ppi" /\ idxIdx' = idxIdx /\ distIdx' = distIdx]_vars
    /\ [](mpc = "idle" /\ run = 1 /\ ~cancelled =>
             \A x \in Slots : IndexIntact(x[1]) => hist.status[x] \in Terminal)

\* the alias of the package list of d1 is missing, the list is in place
\* and its records were downloaded
C16_Witness ==
    /\ mpc = "idle"
    /\ run = 1
    /\ ~cancelled
    /\ IndexIntact(1)
    /\ ~HasFile(fs, AliasOf(1, IndexPath))
    /\ \E x \in Slots : x[1] = 1
    /\ \A x \in Slots : x[1] = 1 => hist.status[x] = "Committed"

\* in file system f the alias of source under hash carries the bytes data
AliasCarries(f, source, hash, data) ==
    /\ HasFile(f, ByHashPath(source, hash))
    /\ FsRead(f, ByHashPath(source, hash)) = data

\* C17: whenever an index has been fetched, createByHashLink, by the link
\* or by the copy, yields a file system in which the alias
\* <dir(source)>/by-hash/SHA256/<hash> exists and carries the bytes of the
\* source, which are unchanged, whatever was at the alias path before; and
\* the step that returns from the fetch either leaves such an alias or is
\* the one where MkdirAll failed and nothing was touched.
C17_AliasIdentical ==
    /\ [](mpc = "indexWait" /\ call[Main].pc = "ret" /\ call[Main].ok =>
            \A linkFails \in BOOLEAN :
               LET c == call[Main]
                   g == createByHashLink(fs, c.dest, c.hash, linkFails)
               IN  /\ AliasCarries(g, c.dest, c.hash, FsRead(fs, c.dest))
                   /\ FsRead(g, c.dest) = FsRead(fs, c.dest))
    /\ [][IndexArrives =>
            \/ AliasCarries(fs', call[Main].dest, call[Main].hash,
                            FsRead(fs, call[Main].dest))
            \/ faults' = faults + 1 /\ fs' = fs /\ dirs' = dirs]_vars

\* the alias of the d1 package list, which had other bytes, is now a link
\* to the list, and the alias of the translation index is a copy of it
C17_Witness ==
    LET list == Join(DistDir("d1"), IndexPath)
        trans == Join(DistDir("d1"), TranslationPath)
    IN  /\ mpc = "idle"
        /\ HasFile(fs, list)
        /\ HasFile(fs, AliasOf(1, IndexPath))
        /\ FileAt(fs, AliasOf(1, IndexPath)) = FileAt(fs, list)
        /\ FsRead(fs, list) = UpstreamBody(Join(DistURL("d1"), IndexPath))
        /\ HasFile(fs, trans)
        /\ HasFile(fs, AliasOf(1, TranslationPath))
        /\ FileAt(fs, AliasOf(1, TranslationPath)) # FileAt(fs, trans)
        /\ FsRead(fs, AliasOf(1, TranslationPath)) = FsRead(fs, trans)

\* the alias of the index just fetched is there after the step, under the
\* hash of the bytes fetched
AliasPublished ==
    /\ call[Main].hash = SHA256(FsRead(fs, call[Main].dest))
    /\ HasFile(fs', ByHashPath(call[Main].dest, call[Main].hash))

\* the local path of the index at hand
LocalIndexPath == Join(DistDir(Dist), indices[idxIdx])

\* C18 as stated: every index whose fetch succeeds has its alias published
\* when mirrorDistribution moves on from it.
C18_AsStated == [][IndexArrives => AliasPublished]_vars

\* C18: every index whose fetch succeeds, package list or not, has its
\* alias published under the hash computed during the fetch when
\* mirrorDistribution moves on from it, unless MkdirAll of the by-hash
\* directory failed, which leaves the disk untouched; processPackageIndex
\* is only entered from that step, and exactly for a path that contains
\* "Packages"; and as long as no operation failed, the alias of the index
\* at hand is in place throughout the decoding, verification and download
\* of its packages.
C18_AliasBeforePackages ==
    /\ [][IndexArrives =>
            /\ \/ AliasPublished
               \/ faults' = faults + 1 /\ fs' = fs /\ dirs' = dirs
            /\ mpc' = "ppi" <=> Contains(indices[idxIdx], "Packages")]_vars
    /\ [][mpc # "ppi" /\ mpc' = "ppi" => IndexArrives]_vars
    /\ [](mpc \in {"ppi"} \cup Pipeline =>
            /\ Contains(indices[idxIdx], "Packages")
            /\ faults = 0 =>
                 HasFile(fs, ByHashPath(LocalIndexPath, SHA256(FsRead(fs, LocalIndexPath)))))

\* a package of d1 is being downloaded while the aliases of the
\* translation index, of the xz list and of the gzip list are in place
C18_Witness ==
    /\ mpc \in Pipeline
    /\ distIdx = 1
    /\ \E w \in Pool : call[w].pc = "copy"
    /\ HasFile(fs, AliasOf(1, TranslationPath))
    /\ HasFile(fs, AliasOf(1, XzIndexPath))
    /\ HasFile(fs, AliasOf(1, IndexPath))
    /\ FsRead(fs, AliasOf(1, IndexPath)) = FsRead(fs, LocalIndexPath)

\* C19: an index whose fetch is reported as a success, and which is then
\* aliased and decoded, has the SHA256 that the upstream Release file
\* declares for it, that is, the digest of the index as published.
C19_IndexVerified ==
    [][IndexArrives =>
          /\ call[Main].expected # NoChecksum
          /\ call[Main].hash = SHA256(UpstreamBody(call[Main].url))]_vars

\* no goroutine of the pipeline is running and no DownloadFile is in progress
Quiescent ==
    /\ AllDone(vw)
    /\ AllDone(dw)
    /\ \A t \in Threads : call[t].pc = "none"

\* C20: within one run the cleanup is invoked at most once; the step that
\* invokes it is taken after the loop over the distributions has gone past
\* the last one, with every worker returned and no download in progress,
\* and never at an earlier position of the loop; and a run that ends
\* without having been cancelled has invoked it exactly once.
C20_ReapOnceAtEnd ==
    /\ [](hist.reaperCalls <= 1)
    /\ [][hist'.reaperCalls > hist.reaperCalls =>
             /\ mpc = "reap"
             /\ distIdx = Len(Dists) + 1
             /\ ~cancelled
             /\ Quiescent]_vars
    /\ [](hist.reaperCalls = 1 =>
             mpc \in {"close", "idle"} /\ distIdx = Len(Dists) + 1 /\ Quiescent)
    /\ [](mpc = "idle" /\ run >= 1 /\ ~cancelled => hist.reaperCalls = 1)

\* a run over both distributions was not cancelled, lost the package list
\* of d1 on the way and has invoked the cleanup
C20_Witness ==
    /\ mpc = "idle"
    /\ run = 1
    /\ ~cancelled
    /\ hist.reaperCalls = 1
    /\ ~IndexIntact(1)
    /\ IndexIntact(2)
    /\ distIdx = Len(Dists) + 1

\* C21: validPackages is empty when a Mirror run starts, and within a run
\* no path is ever removed from it.
C21_RunScoped ==
    /\ [][run' # run => validPackages' = {}]_vars
    /\ [][run' = run => validPackages \subseteq validPackages']_vars

\* C22: when the pool directory does not exist, the cleanup step finds
\* nothing to remove, whatever the mirror holds elsewhere; it is counted as
\* invoked, leaves every file and directory as it was and lets the run
\* end.
C22_NoPoolNoOp ==
    /\ [](PoolDir \notin dirs => toRemove(fs, dirs, validPackages) = {})
    /\ [][mpc = "reap" /\ mpc' # "reap" /\ ~cancelled /\ PoolDir \notin dirs =>
             /\ fs' = fs
             /\ dirs' = dirs
             /\ hist'.reaped = {}
             /\ hist'.reaperCalls = hist.reaperCalls + 1
             /\ mpc' = "close"]_vars

\* a run on a mirror without a pool fetched the metadata of d1, found no
\* package list, invoked the cleanup and ended with the archive outside
\* the pool still there
C22_Witness ==
    /\ mpc = "idle"
    /\ run = 1
    /\ hist.reaperCalls = 1
    /\ PoolDir \notin dirs
    /\ HasFile(fs, Join(DistDir("d1"), "Release"))
    /\ HasFile(fs, Join(DownloadPath, Stray))

\* the elements of a sequence
Range(seq) == {seq[i] : i \in 1..Len(seq)}

componentMatches(cfg, path) == \E c \in Range(cfg.Components) : HasPrefix(path, c \o "/")

archBinaryMatch(cfg, path) ==
    \E a \in Range(cfg.Archs) :
        Contains(path, "binary-" \o a \o "/") /\ Contains(path, "Packages")

translationMatch(cfg, path) ==
    /\ Contains(path, "i18n/Translation-")
    /\ \E l \in Range(cfg.Languages) : Contains(path, "Translation-" \o l)

commandIndexMatch(cfg, path) ==
    /\ Contains(path, "cnf/Commands-")
    /\ \E a \in Range(cfg.Archs) : Contains(path, "Commands-" \o a)

\* C23: for every configuration and path, the value isDesired returned is
\* componentMatches AND (archBinaryMatch OR translationMatch OR
\* commandIndexMatch); in particular language "en" admits
\* i18n/Translation-en_GB, and a component is matched only as a prefix
\* followed by "/".
C23_FilterDecision ==
    probe.fn = "filter" /\ probe.desired # <<>> =>
        /\ probe.desired[1] =
             (/\ componentMatches(probe.cfg, probe.path)
              /\ \/ archBinaryMatch(probe.cfg, probe.path)
                 \/ translationMatch(probe.cfg, probe.path)
                 \/ commandIndexMatch(probe.cfg, probe.path))
        /\ (/\ probe.path = "main/i18n/Translation-en_GB.bz2"
            /\ "main" \in Range(probe.cfg.Components)
            /\ "en" \in Range(probe.cfg.Languages)) => probe.desired[1]
        /\ probe.path \in {"x/main/binary-amd64/Packages.gz",
                           "mainline/binary-amd64/Packages.gz"} => ~probe.desired[1]

\* the regional translation index was admitted for language "en" alone, by
\* a configuration without architectures
C23_Witness ==
    /\ probe.fn = "filter"
    /\ probe.path = "main/i18n/Translation-en_GB.bz2"
    /\ probe.cfg = [Components |-> <<"main">>, Archs |-> <<>>, Languages |-> <<"en">>]
    /\ probe.desired = <<TRUE>>

\* a configuration that filters nothing in
EmptyFilter(cfg) ==
    cfg.Components = <<>> \/ (cfg.Archs = <<>> /\ cfg.Languages = <<>>)

\* C24: with an empty component list, or with the architecture list and the
\* language list both empty, isDesired returns false for the path and
\* parseReleaseFile returns the empty sequence for the Release file that
\* lists it.
C24_EmptyFilterYieldsNothing ==
    probe.fn = "filter" /\ EmptyFilter(probe.cfg) =>
        /\ probe.desired \in {<<>>, <<FALSE>>}
        /\ probe.parsed \in {<<>>, << <<>> >>}

\* both functions were applied under a configuration with architectures
\* and languages but no component, to a path every other filter admits
C24_Witness ==
    /\ probe.fn = "filter"
    /\ probe.cfg = [Components |-> <<>>, Archs |-> <<"amd64">>, Languages |-> <<"en">>]
    /\ probe.path = "main/binary-amd64/Packages.gz"
    /\ probe.desired = <<FALSE>>
    /\ probe.parsed = << <<>> >>

\* line i of the manifest lies inside a SHA256 block: after a line that is
\* exactly "SHA256:", with no line that is non-empty and unindented from
\* there up to line i
InSHA256Block(lines, i) ==
    \E j \in 1..(i - 1) :
        /\ lines[j] = "SHA256:"
        /\ \A k \in (j + 1)..i : lines[k] = "" \/ SubSeq(lines[k], 1, 1) = " "

\* the third fields of the lines from line i on that lie inside a SHA256
\* block, have three fields or more, a compression extension and are desired
RECURSIVE Listed(_, _)
Listed(lines, i) ==
    IF i > Len(lines) THEN <<>>
    ELSE (IF /\ InSHA256Block(lines, i)
             /\ Len(Fields(lines[i])) >= 3
             /\ validExt(Fields(lines[i])[3])
             /\ isDesired(Fields(lines[i])[3])
          THEN <<Fields(lines[i])[3]>> ELSE <<>>) \o Listed(lines, i + 1)

\* C25: parseReleaseFile returns exactly the third field of the lines
\* inside the SHA256 block that have at least three fields, end in .gz,
\* .xz or .bz2 and are desired, in their order; a manifest without a
\* SHA256 block yields the empty sequence.
C25_ParseResult ==
    probe.fn = "parse" /\ probe.out # <<>> =>
        /\ probe.out[1] = Listed(probe.lines, 1)
        /\ (\A i \in 1..Len(probe.lines) : probe.lines[i] # "SHA256:") =>
              probe.out[1] = <<>>

\* C28: the lines parseReleaseFile takes for entries of a checksum block
\* are exactly those after a line equal to "SHA256:" and before the next
\* line that is non-empty and does not begin with a space; a line with
\* content after the token opens no block.
C28_BlockBounds ==
    probe.fn = "parse" /\ probe.out # <<>> =>
        probe.split = {i \in 1..Len(probe.lines) : InSHA256Block(probe.lines, i)}

\* a line with nothing but white space
Blank(line) == \A i \in 1..Len(line) : SubSeq(line, i, i) \in {" ", "\t"}

\* a stanza begins at line a: it is not blank and follows a blank line or
\* the beginning
StanzaAt(lines, a) == ~Blank(lines[a]) /\ (a = 1 \/ Blank(lines[a - 1]))

\* the lines of the stanza that begins at line a
StanzaOf(lines, a) == {b \in a..Len(lines) : \A k \in a..b : ~Blank(lines[k])}

\* the value the stanza at a captures for key: that of the last line of
\* the stanza that begins with the key, or none
Captured(lines, a, key) ==
    LET keyed == {k \in StanzaOf(lines, a) : HasPrefix(lines[k], key)}
    IN  IF keyed = {} THEN ""
        ELSE LET last == CHOOSE k \in keyed : \A m \in keyed : m <= k
             IN  SubSeq(lines[last], Len(key) + 1, Len(lines[last]))

\* the records of the stanzas that begin at line a or later, in their order
RECURSIVE Records(_, _)
Records(lines, a) ==
    IF a > Len(lines) THEN <<>>
    ELSE (IF /\ StanzaAt(lines, a)
             /\ Captured(lines, a, "Filename: ") # ""
             /\ Captured(lines, a, "SHA256: ") # ""
          THEN <<[Path |-> Captured(lines, a, "Filename: "),
                  SHA256 |-> Captured(lines, a, "SHA256: ")]>>
          ELSE <<>>) \o Records(lines, a + 1)

\* C26: the records extractDebsFromIndex emits are, in stanza order, one
\* per stanza (a run of lines between blank lines, the last one ending with
\* the file) in which a "Filename: " value and a "SHA256: " value were
\* captured non-empty, the last line of a repeated key giving the value;
\* no record has an empty path or an empty hash.
C26_StanzaRecords ==
    probe.fn = "stanzas" /\ probe.out # <<>> =>
        /\ probe.out[1] = Records(probe.lines, 1)
        /\ \A n \in 1..Len(probe.out[1]) :
              probe.out[1][n].Path # "" /\ probe.out[1][n].SHA256 # ""

\* a stanza without Filename was discarded, and the stanza the file ends
\* in, which repeats Filename, gave one record with the later value
C26_Witness ==
    /\ probe.fn = "stanzas"
    /\ probe.lines = <<"SHA256: 1a", " ", "Filename: pool/a.deb", "Filename: pool/b.deb",
                       "SHA256: 2b">>
    /\ probe.out = << <<[Path |-> "pool/b.deb", SHA256 |-> "2b"]>> >>

\* C27: the distribution list the repository object keeps is [Dist] when
\* Dists is empty and Dist is set, and Dists itself, in its order, when
\* Dists is not empty, whatever Dist is; the distributions mirrored so far
\* are always the first ones of that list in its order, and all of it when
\* the loop ends without cancellation.
C27_DistsNormalised ==
    probe.fn = "config" /\ probe.repo # <<>> =>
        LET kept == probe.repo[1].Dists
        IN  /\ probe.config.Dists = <<>> /\ probe.config.Dist # "" =>
                 kept = <<probe.config.Dist>>
            /\ probe.config.Dists # <<>> => kept = probe.config.Dists
            /\ Len(probe.visited) <= Len(kept)
            /\ probe.visited = SubSeq(kept, 1, Len(probe.visited))
            /\ probe.done /\ ~probe.cancelled => probe.visited = kept

\* with both settings given, the list was kept and its two distributions
\* were mirrored in its order
C27_Witness ==
    /\ probe.fn = "config"
    /\ probe.config.Dists = <<"d2", "d1">>
    /\ probe.config.Dist = "d0"
    /\ probe.done
    /\ probe.visited = <<"d2", "d1">>

\* the queue of download candidates of the index at hand is closed in this step
ClosesCandidates == mpc = "collect" /\ mpc' # "collect"

\* the verification stage of the index at hand is left in this step
LeavesVerification == mpc \in {"sendV", "collect"} /\ mpc' \notin {"sendV", "collect"}

\* every record of the index at hand was sent to the verifiers and taken
\* from their queue
AllConsumed == sendIdx > Len(debs) /\ verificationJobs.buf = <<>>

ConfiguredWorkers ==
    NewDittoRepo([Dists |-> Dists, Dist |-> "", Workers |-> Workers]).Workers

\* the verification workers that have not returned, those with a record in
\* hand, the download workers that have not returned, and the goroutines
\* other than doMirror inside DownloadFile
LiveVerifiers == {w \in DOMAIN vw : vw[w].pc # "done"}
Verifying == {w \in DOMAIN vw : vw[w].pc = "verify"}
LiveDownloaders == {w \in DOMAIN dw : dw[w].pc # "done"}
Downloading == {t \in DOMAIN call \ {Main} : call[t].pc # "none"}

\* C30: the worker count kept is the configured one, or defaultWorkers
\* when that is zero or negative; at every moment at most that many
\* verification workers are alive, so at most that many verifications are
\* in progress, and at most that many download workers are alive, which
\* are the only goroutines that call DownloadFile for packages, so at most
\* that many of these calls are in progress.
C30_BoundedWorkers ==
    /\ \A c \in CallerConfigs :
          NewDittoRepo(c).Workers = IF c.Workers <= 0 THEN 5 ELSE c.Workers
    /\ Verifying \subseteq LiveVerifiers
    /\ Cardinality(LiveVerifiers) <= ConfiguredWorkers
    /\ Cardinality(Verifying) <= ConfiguredWorkers
    /\ Downloading \subseteq LiveDownloaders
    /\ Cardinality(LiveDownloaders) <= ConfiguredWorkers
    /\ Cardinality(Downloading) <= ConfiguredWorkers

\* as many package downloads as there are workers are in progress at once,
\* after as many verifications were
C30_Witness ==
    /\ Cardinality(Downloading) = ConfiguredWorkers
    /\ \A t \in Downloading : call[t].pc = "copy"
    /\ Cardinality({s \in DOMAIN hist.status : hist.status[s] = "Queued"}) >= ConfiguredWorkers

\* C32: once the context is cancelled, every verification worker and every
\* download worker started for the index at hand eventually returns.
C32_WorkersReturn == cancelled ~> (AllDone(vw) /\ AllDone(dw))

\* a worker goroutine of either pool has been started and has not returned
WorkersExist == \E w \in Pool : vw[w].pc # "done" \/ dw[w].pc # "done"

\* the step is one the code makes between d.mu.Lock() and d.mu.Unlock():
\* the update of the valid set and of the total in processPackageIndex,
\* the count and report of a successful download, the lookups of the cleanup
HoldsMutex ==
    \/ mpc = "ppi" /\ mpc' = "sendV"
    \/ \E w \in Pool : /\ call[w].pc = "ret" /\ call[w].ok
                       /\ dw[w].pc = "download" /\ call'[w].pc = "none"
    \/ mpc = "reap" /\ mpc' # "reap"

\* C31: a step that writes validPackages, packagesDownloaded or
\* totalPackages while a worker goroutine exists is made holding the mutex.
C31_MutexGuards ==
    [][/\ \/ validPackages' # validPackages
          \/ packagesDownloaded' # packagesDownloaded
          \/ totalPackages' # totalPackages
       /\ WorkersExist
       => HoldsMutex]_vars

\* a value is put into the buffer of channel ch in this step (chNext is
\* the channel after the step)
SendsOn(ch, chNext) ==
    /\ Len(chNext.buf) > 0
    /\ \/ Len(chNext.buf) > Len(ch.buf)
       \/ Len(chNext.buf) = Len(ch.buf) /\ chNext.buf # ch.buf

\* C33: no value is sent on a closed channel and no channel is closed a
\* second time: the queue of verification jobs and the queue of downloads
\* are open when their one closer closes them and take no value afterwards;
\* the queue of download candidates takes no value in the step that closes
\* and collects it nor while the download stage runs; the progress channel is open when Mirror's
\* goroutine closes it, every download worker has returned by then, and it
\* takes no value once closed.
C33_ChannelDiscipline ==
    /\ [][SendsOn(verificationJobs, verificationJobs') => ~verificationJobs.closed]_vars
    /\ [][mpc = "sendV" /\ mpc' = "collect" =>
             ~verificationJobs.closed /\ verificationJobs'.closed]_vars
    /\ [][downloadJobsChan' # downloadJobsChan /\ downloadJobsChan' # <<>> =>
             mpc \notin {"sendD", "waitD"} /\ ~ClosesCandidates]_vars
    /\ [][SendsOn(jobChan, jobChan') => ~jobChan.closed]_vars
    /\ [][mpc = "sendD" /\ jobChan'.closed => ~jobChan.closed /\ mpc' = "waitD"]_vars
    /\ [][SendsOn(progressChan, progressChan') => ~progressChan.closed]_vars
    /\ [][mpc = "close" /\ mpc' # "close" =>
             /\ ~progressChan.closed /\ progressChan'.closed
             /\ AllDone(dw)
             /\ \A w \in Pool : call[w].pc = "none"]_vars
    /\ [](progressChan.closed => mpc = "idle")

\* a cancelled run has closed the queue of downloads with a job unsent
\* while a worker is inside DownloadFile
C33_Witness ==
    /\ cancelled
    /\ mpc = "waitD"
    /\ jobChan.closed
    /\ sendIdx <= Len(jobs)
    /\ \E w \in Pool : call[w].pc # "none"

\* goroutine t is inside DownloadFile, its temporary file created
InFlight(t) == call[t].pc = "copy"

\* C34: no two DownloadFile calls in flight at the same time have the same
\* destination, hence none share a temporary path.
C34_OneWriterPerTmp ==
    \A t, u \in Threads :
        t # u /\ InFlight(t) /\ InFlight(u) => TmpPath(call[t].dest) # TmpPath(call[u].dest)

\* C35: a DownloadFile call for a package starts only in the download stage
\* of the index the package is a record of, when every verification worker
\* of that index has returned, every record of the index has been decided
\* and the jobs at hand are all the candidates that were pushed, the
\* package's among them.
C35_StagesApart ==
    [][\A w \in Pool : StartsDownload(w) =>
          /\ mpc \in {"sendD", "waitD"}
          /\ AllDone(vw)
          /\ \A n \in 1..Len(debs) : hist.status[<<distIdx, n>>] # "Unknown"
          /\ jobs = downloadJobsChan
          /\ call'[w].slot[1] = distIdx
          /\ \E n \in 1..Len(jobs) :
                jobs[n].slot = call'[w].slot /\ jobs[n].Dest = call'[w].dest]_vars

\* the second candidate of the d1 index is being downloaded, both records
\* verified and queued and both verification workers returned
C35_Witness ==
    /\ distIdx = 1
    /\ mpc = "sendD"
    /\ AllDone(vw)
    /\ Len(jobs) = 2
    /\ \E w \in Pool : InFlight(w) /\ call[w].slot = <<1, 2>>
    /\ hist.status[<<1, 1>>] = "Queued"

\* goroutine t's DownloadFile call returns an error in this step
ReturnsError(t) == call[t].pc # "ret" /\ call'[t].pc = "ret" /\ ~call'[t].ok

\* C36: when a DownloadFile call returns an error, whatever the step that
\* failed, its destination is as it was when the call began: absent, or
\* with the same bytes.
C36_ErrorLeavesDestination ==
    [][\A t \in Threads :
          ReturnsError(t) => Snap(fs', call'[t].dest) = call'[t].before]_vars

\* goroutine t's DownloadFile call returns in this step
Returns(t) == call[t].pc # "ret" /\ call'[t].pc = "ret"

\* C37: when a DownloadFile call returns, with or without an error, no
\* file is at its temporary path, and when a run has ended no file of the
\* mirror has a name that ends in ".tmp".
C37_NoTmpLeft ==
    /\ [][\A t \in Threads : Returns(t) => ~HasFile(fs', TmpPath(call'[t].dest))]_vars
    /\ [](mpc = "idle" /\ run >= 1 =>
             \A q \in UNION {i.paths : i \in fs} : ~HasSuffix(q, ".tmp"))

\* verifyFile returns an error, or reports a mismatch, for the record of
\* verification worker w
VerifyError(w) ==
    /\ Exists(w)
    /\ verifyFile(fs, vw[w].job.localPath, vw[w].job.pkg.SHA256) = "error"
VerifyMismatch(w) ==
    /\ Exists(w)
    /\ verifyFile(fs, vw[w].job.localPath, vw[w].job.pkg.SHA256) = "mismatch"

\* what follows for the record of worker w when it is not kept: it is
\* queued, or, the run being cancelled, the worker returns
NotKept(w) ==
    /\ hist'.status[vw[w].job.slot] # "VerifiedKept"
    /\ \/ Queues(w) /\ vw'[w].pc = "recv" /\ hist'.status[vw[w].job.slot] = "Queued"
       \/ cancelled /\ vw'[w].pc = "done" /\ downloadJobsChan' = downloadJobsChan

\* C38: a record whose local file exists and cannot be opened or hashed is
\* never kept, whatever bytes the file holds: it is queued for download (or
\* dropped by a worker that returns on cancellation) as a record whose
\* hash differs is, and no record with such a file is VerifiedKept.
C38_VerifyErrorQueued ==
    /\ [][\A w \in Pool : Decides(w) =>
             /\ VerifyError(w) => NotKept(w) /\ (~cancelled => Queues(w))
             /\ VerifyMismatch(w) => NotKept(w) /\ (~cancelled => Queues(w))]_vars
    /\ [](\A x \in Slots :
             /\ hist.status[x] = "VerifiedKept"
             /\ HasFile(hist.initial, Join(DownloadPath, published[x[1]][x[2]].Path))
             => FileAt(hist.initial, Join(DownloadPath, published[x[1]][x[2]].Path)).readable)

\* package a is on disk with the bytes of the record but cannot be opened,
\* and its record was queued for download
C38_Witness ==
    /\ HasFile(hist.initial, Join(DownloadPath, PkgA))
    /\ ~FileAt(hist.initial, Join(DownloadPath, PkgA)).readable
    /\ SHA256(FsRead(hist.initial, Join(DownloadPath, PkgA))) = Meta(PkgA).SHA256
    /\ hist.status[<<1, 1>>] = "Queued"
    /\ \E n \in 1..Len(downloadJobsChan) : downloadJobsChan[n].slot = <<1, 1>>

\* the local path of the record in slot x
SlotPath(x) == Join(DownloadPath, published[x[1]][x[2]].Path)

\* C39: the paths of the records of an index are all in validPackages from
\* the step that starts its verification workers on, hence whenever one of
\* its records is verified or downloaded; the cleanup of the run removes
\* no file of a record the run kept, queued, committed or failed to
\* download; and after the cleanup the file a failed record had before the
\* run is still there.
C39_DecodedPathsProtected ==
    /\ [][mpc = "ppi" /\ mpc' = "sendV" =>
             /\ AllDone(vw) /\ AllDone(dw)
             /\ \A n \in 1..Len(debs') : debs'[n].Path \in validPackages']_vars
    /\ [](mpc \in Pipeline => \A n \in 1..Len(debs) : debs[n].Path \in validPackages)
    /\ [][\A w \in Pool : StartsVerify(w) \/ StartsDownload(w) =>
             \A n \in 1..Len(debs) : debs[n].Path \in validPackages]_vars
    /\ [](\A x \in Slots :
             hist.status[x] # "Unknown" =>
                 /\ published[x[1]][x[2]].Path \in validPackages
                 /\ SlotPath(x) \notin hist.reaped)
    /\ [](\A x \in Slots :
             /\ hist.reaperCalls = 1
             /\ hist.status[x] = "Failed"
             /\ HasFile(hist.initial, SlotPath(x))
             => HasFile(fs, SlotPath(x)))

\* a run has ended after its cleanup removed the orphan: the download of
\* package a failed and its out-of-date file is still there with the bytes
\* it had, and package b was committed
C39_Witness ==
    /\ mpc = "idle"
    /\ hist.reaperCalls = 1
    /\ Join(DownloadPath, Orphan) \in hist.reaped
    /\ hist.status[<<1, 1>>] = "Failed"
    /\ HasFile(hist.initial, SlotPath(<<1, 1>>))
    /\ FsRead(hist.initial, SlotPath(<<1, 1>>)) = Body(StaleByte)
    /\ Snap(fs, SlotPath(<<1, 1>>)) = <<"file", Body(StaleByte)>>
    /\ hist.status[<<1, 2>>] = "Committed"
    /\ HasFile(fs, SlotPath(<<1, 2>>))

====
